---- MODULE Spec2Model ----
(***************************************************************************)
(* Model of the position-accounting and stop-loss trailing core of the     *)
(* AlgoOne trading bot (src/src/portfolio, src/src/positions,              *)
(* src/src/trader).                                                        *)
(*                                                                         *)
(* Numbers.  The program computes in floating point; the model computes    *)
(* in integers on input domains where every quotient the code forms is     *)
(* exact:                                                                  *)
(*   - volumes are counted in hundredths of a lot, prices and profits in   *)
(*     whole price / currency units;                                       *)
(*   - fractions of the configuration are kept as numerator/denominator    *)
(*     (0.05 = 500 / 10000) and applied by multiplying first;              *)
(*   - a Python None is the empty set and a present value v is {v};        *)
(*   - a Python dict is a function on its set of keys.                     *)
(***************************************************************************)
EXTENDS Integers, Sequences, FiniteSets, TLC

VARIABLES
    positions,            \* hard_memory/positions.json as read by load_cached_positions
    historical_summary,   \* hard_memory/total_positions.json
    events,               \* broker events since the last get_total_positions
    snapshot_summary,     \* what aggregate_position_data returned last
    tracked,              \* the position dict handed to the position state tracker
    samples,              \* every distinct rounded sample the tracker took, in order
    call,                 \* the arguments of the function under evaluation
    result,               \* what it returned, None before the call
    broker,               \* the open positions on the broker's side
    last_tick,            \* the last tick: bid and ask
    autotrade_config,     \* config/autotrade_config_settings.json
    sl_requests,          \* the stop-loss modifications sent by the step just taken
    next_ticket,          \* the ticket the broker gives the next position
    peak_seen,            \* per cached ticket, the largest profit percent computed so far
    cache_file,           \* hard_memory/positions.json on disk: there or not, its age, its text
    last_ticks,           \* tick_listener.last_ticks: per symbol the (bid, ask) seen last
    quotes,               \* per symbol what mt5.symbol_info_tick returns now
    clock                 \* int(time.time()), in seconds

vars == <<positions, historical_summary, events, snapshot_summary, tracked, samples,
          call, result, broker, last_tick, autotrade_config, sl_requests, next_ticket,
          peak_seen, cache_file, last_ticks, quotes, clock>>

trackerVars == <<tracked, samples>>
callVars == <<call, result>>
tradeVars == <<broker, last_tick, autotrade_config, sl_requests, next_ticket, peak_seen>>
accountVars == <<historical_summary, events, snapshot_summary>>
\* the variables one specification alone uses
listenerVars == <<last_ticks, quotes>>
restVars == <<cache_file, listenerVars, clock>>

\* the parts of the state a specification does not use stay at these values
NoTracker == tracked = <<>> /\ samples = <<>>
NoCall == call = <<>> /\ result = {}
NoTrade ==
    /\ broker = <<>>
    /\ last_tick = <<>>
    /\ autotrade_config = <<>>
    /\ sl_requests = {}
    /\ next_ticket = 1
    /\ peak_seen = <<>>
NoAccount == historical_summary = <<>> /\ events = 0 /\ snapshot_summary = <<>>
NoListener == last_ticks = <<>> /\ quotes = <<>>
NoRest == cache_file = <<>> /\ NoListener /\ clock = 0

(***************************************************************************)
(* Generic helpers: dict access, optional values, sequence folds.          *)
(***************************************************************************)
None == {}

Some(v) == {v}

TheValue(o) == CHOOSE v \in o : TRUE

Get(d, k, default) == IF k \in DOMAIN d THEN d[k] ELSE default

Put(d, k, v) == [x \in (DOMAIN d) \cup {k} |-> IF x = k THEN v ELSE d[x]]

Max2(a, b) == IF a >= b THEN a ELSE b

Min2(a, b) == IF a <= b THEN a ELSE b

RECURSIVE SumSeq(_)
SumSeq(s) == IF s = <<>> THEN 0 ELSE Head(s) + SumSeq(Tail(s))

RECURSIVE MaxSeq(_)
MaxSeq(s) == IF Len(s) = 1 THEN s[1] ELSE Max2(Head(s), MaxSeq(Tail(s)))

\* mutant of IndexOf: the last matching index instead of the first
IndexOfLast(s, v) == CHOOSE i \in 1..Len(s) : s[i] = v /\ \A j \in (i + 1)..Len(s) : s[j] # v

\* list.index(v): position of the first element equal to v
IndexOf(s, v) == CHOOSE i \in 1..Len(s) : s[i] = v /\ \A j \in 1..(i - 1) : s[j] # v

(***************************************************************************)
(* Bounds and input domains.                                               *)
(***************************************************************************)
MaxEvents == 1        \* broker events between two polls of the accounting cycle

MaxRaw == 2           \* raw positions handed to the snapshot builder

Symbols == {"EURUSD", "BTCUSD"}

Types == {"BUY", "SELL"}

Volumes == {1, 2}

\* multiples of 12600, so that every weighted average over at most nine
\* volume units and the 0.5% / 5% targets are whole numbers
OpenPrices == {12600, 25200}

\* what the broker reports for an open position in one poll
Quotes == {[price_current |-> 12500, profit |-> -100],
           [price_current |-> 12700, profit |-> 100],
           [price_current |-> 25300, profit |-> 3000]}

Times == {1, 2}

\* the accounting cycle follows one symbol with unit volumes
AccountSymbols == {"EURUSD"}

AccountVolumes == {1}

AccountOpenPrices == {12600}

AccountTimes == {1}

Tickets == {1, 2}

\* src/src/config.py: CLOSE_PROFIT_THRESHOLD = 5.0/100.0 and
\* TRAILING_PROFIT_THRESHHOLD = 0.5/100.0, as exact fractions
CLOSE_PROFIT_THRESHOLD == [num |-> 5, den |-> 100]

TRAILING_PROFIT_THRESHHOLD == [num |-> 5, den |-> 1000]

\* a / b for the exact quotients of the input domain
Div(a, b) == IF b < 0 THEN (0 - a) \div (0 - b) ELSE a \div b

\* datetime.utcfromtimestamp(t).strftime(...): the formatted time is a
\* one-element tuple, the empty string "" of the code is the empty tuple
FormatTime(t) == <<t>>

EmptyDict == <<>>

(***************************************************************************)
(* process_positions: raw positions -> per symbol, per side parallel lists *)
(***************************************************************************)
EmptySideData ==
    [TICKETS |-> <<>>, SIZES |-> <<>>, PRICES |-> <<>>, CURRENT_PRICES |-> <<>>,
     UNREALIZED_PROFITS |-> <<>>, POSITION_TIMES |-> <<>>, POSITION_TIMES_RAW |-> <<>>]

SideOf(pos) == IF pos.type = "BUY" THEN "LONG" ELSE "SHORT"

AppendPosition(side_data, pos) ==
    [TICKETS            |-> Append(side_data.TICKETS, pos.ticket),
     SIZES              |-> Append(side_data.SIZES, pos.volume),
     PRICES             |-> Append(side_data.PRICES, pos.price_open),
     CURRENT_PRICES     |-> Append(side_data.CURRENT_PRICES, pos.price_current),
     UNREALIZED_PROFITS |-> Append(side_data.UNREALIZED_PROFITS, pos.profit),
     POSITION_TIMES     |-> Append(side_data.POSITION_TIMES, pos.time_open),
     POSITION_TIMES_RAW |-> Append(side_data.POSITION_TIMES_RAW, pos.time_raw)]

ProcessOne(processed, pos) ==
    LET started == IF pos.symbol \in DOMAIN processed
                     THEN processed
                     ELSE Put(processed, pos.symbol,
                              [LONG |-> EmptySideData, SHORT |-> EmptySideData])
        side == SideOf(pos)
    IN  Put(started, pos.symbol,
            Put(started[pos.symbol], side, AppendPosition(started[pos.symbol][side], pos)))

RECURSIVE ProcessFrom(_, _)
ProcessFrom(processed, ps) ==
    IF ps = <<>> THEN processed
    ELSE ProcessFrom(ProcessOne(processed, Head(ps)), Tail(ps))

\* mutant of process_positions: the lists of an earlier call on the same
\* positions are still in the dictionary the call fills
process_positions_kept(ps) == ProcessFrom(ProcessFrom(EmptyDict, ps), ps)

\* line 78: every call starts from an empty dictionary
process_positions(ps) == ProcessFrom(EmptyDict, ps)

(***************************************************************************)
(* aggregate_position_data: LONG / SHORT summaries and the NET view        *)
(***************************************************************************)
RECURSIVE WeightedSum(_, _)
WeightedSum(prices, sizes) ==
    IF prices = <<>> \/ sizes = <<>> THEN 0
    ELSE Head(prices) * Head(sizes) + WeightedSum(Tail(prices), Tail(sizes))

SideSummary(data) ==
    LET total_weight == SumSeq(data.SIZES)
        avg_price == IF total_weight > 0
                       THEN Div(WeightedSum(data.PRICES, data.SIZES), total_weight)
                       ELSE 0
        has_times == data.POSITION_TIMES_RAW # <<>>
        max_index == IndexOf(data.POSITION_TIMES_RAW, MaxSeq(data.POSITION_TIMES_RAW))
    IN  [SIZE_SUM               |-> SumSeq(data.SIZES),
         POSITION_COUNT         |-> Len(data.TICKETS),
         AVG_PRICE              |-> avg_price,
         CURRENT_PRICE          |-> IF has_times THEN Some(data.CURRENT_PRICES[max_index]) ELSE None,
         UNREALIZED_PROFIT      |-> SumSeq(data.UNREALIZED_PROFITS),
         LAST_POSITION_TIME     |-> IF has_times THEN data.POSITION_TIMES[max_index] ELSE <<>>,
         LAST_POSITION_TIME_RAW |-> IF has_times THEN data.POSITION_TIMES_RAW[max_index] ELSE 0]

\* mutant of NetSize: SHORT volume added instead of subtracted
NetSizeUnsigned(long_size, short_size) == long_size + short_size

NetSize(long_size, short_size) == long_size - short_size

NetSummary(long_data, short_data) ==
    LET long_size == long_data.SIZE_SUM
        short_size == short_data.SIZE_SUM
        net_size == NetSize(long_size, short_size)
        net_weighted == long_data.SIZE_SUM * long_data.AVG_PRICE
                        - short_data.SIZE_SUM * short_data.AVG_PRICE
        net_avg_price == IF net_size # 0 THEN Div(net_weighted, net_size) ELSE 0
        recent == IF long_data.LAST_POSITION_TIME_RAW >= short_data.LAST_POSITION_TIME_RAW
                    THEN long_data ELSE short_data
    IN  [SIZE_SUM               |-> net_size,
         POSITION_COUNT         |-> long_data.POSITION_COUNT + short_data.POSITION_COUNT,
         AVG_PRICE              |-> net_avg_price,
         CURRENT_PRICE          |-> recent.CURRENT_PRICE,
         UNREALIZED_PROFIT      |-> long_data.UNREALIZED_PROFIT + short_data.UNREALIZED_PROFIT,
         LAST_POSITION_TIME     |-> recent.LAST_POSITION_TIME,
         LAST_POSITION_TIME_RAW |-> recent.LAST_POSITION_TIME_RAW]

aggregate_position_data(processed) ==
    [symbol \in DOMAIN processed |->
        LET long_data == SideSummary(processed[symbol].LONG)
            short_data == SideSummary(processed[symbol].SHORT)
        IN  [LONG |-> long_data, SHORT |-> short_data,
             NET |-> NetSummary(long_data, short_data)]]

(***************************************************************************)
(* get_total_positions: merge of the snapshot into the historical record   *)
(***************************************************************************)
PutAll(d, r) == [x \in (DOMAIN d) \cup (DOMAIN r) |-> IF x \in DOMAIN r THEN r[x] ELSE d[x]]

\* investment * threshold
TargetProfit(size, avg_price, threshold) ==
    Div(size * avg_price * threshold.num, threshold.den)

\* lines 228-238: a symbol seen for the first time
NewSymbolSide(snap) ==
    PutAll(snap, [PROFIT_RECORD_TRACK |-> snap.UNREALIZED_PROFIT,
                  LOSS_RECORD_TRACK   |-> snap.UNREALIZED_PROFIT,
                  GOAL_MET            |-> FALSE,
                  TRAILING_CROSSED    |-> FALSE,
                  CLOSE_SIGNAL        |-> FALSE])

\* lines 245-263: fields a loaded record may lack
InitMissing(hist, snap) ==
    LET unrealized == Get(snap, "UNREALIZED_PROFIT", 0)
        size == Get(snap, "SIZE_SUM", 0)
        avg_price == Get(snap, "AVG_PRICE", 0)
        h1 == IF "PROFIT_RECORD_TRACK" \in DOMAIN hist THEN hist
              ELSE Put(hist, "PROFIT_RECORD_TRACK", unrealized)
        h2 == IF "LOSS_RECORD_TRACK" \in DOMAIN h1 THEN h1
              ELSE Put(h1, "LOSS_RECORD_TRACK", unrealized)
        h3 == IF "PROFIT_GOAL" \in DOMAIN h2 THEN h2
              ELSE Put(h2, "PROFIT_GOAL", TargetProfit(size, avg_price, CLOSE_PROFIT_THRESHOLD))
    IN  IF "TRAILING_PROFIT" \in DOMAIN h3 THEN h3
        ELSE Put(h3, "TRAILING_PROFIT", TargetProfit(size, avg_price, TRAILING_PROFIT_THRESHHOLD))

\* lines 299-322: reset when flat, else the three flags
ResetOrFlags(hist, snap) ==
    IF Get(snap, "SIZE_SUM", 0) = 0
      THEN PutAll(hist, [PROFIT_RECORD_TRACK |-> 0,
                         LOSS_RECORD_TRACK   |-> 0,
                         PROFIT_GOAL         |-> 0,
                         TRAILING_PROFIT     |-> 0,
                         GOAL_MET            |-> FALSE,
                         TRAILING_CROSSED    |-> FALSE])
      ELSE LET goal_met == Get(snap, "UNREALIZED_PROFIT", 0) >= Get(hist, "PROFIT_GOAL", 0)
               trailing_crossed == Get(snap, "UNREALIZED_PROFIT", 0) >= Get(hist, "TRAILING_PROFIT", 0)
           IN  PutAll(hist, [GOAL_MET         |-> goal_met,
                             TRAILING_CROSSED |-> trailing_crossed,
                             CLOSE_SIGNAL     |-> goal_met /\ trailing_crossed])

\* lines 241-324: one side of a symbol already in the historical record
MergeSide(hist0, snap) ==
    LET hist == InitMissing(hist0, snap)
        unrealized == Get(snap, "UNREALIZED_PROFIT", 0)
        size == Get(snap, "SIZE_SUM", 0)
        avg_price == Get(snap, "AVG_PRICE", 0)
        updated ==
            PutAll(hist,
                [PROFIT_RECORD_TRACK    |-> Max2(Get(hist, "PROFIT_RECORD_TRACK", unrealized), unrealized),
                 LOSS_RECORD_TRACK      |-> Min2(Get(hist, "LOSS_RECORD_TRACK", unrealized), unrealized),
                 SIZE_SUM               |-> snap.SIZE_SUM,
                 POSITION_COUNT         |-> snap.POSITION_COUNT,
                 AVG_PRICE              |-> snap.AVG_PRICE,
                 CURRENT_PRICE          |-> snap.CURRENT_PRICE,
                 UNREALIZED_PROFIT      |-> snap.UNREALIZED_PROFIT,
                 LAST_POSITION_TIME     |-> snap.LAST_POSITION_TIME,
                 LAST_POSITION_TIME_RAW |-> snap.LAST_POSITION_TIME_RAW,
                 PROFIT_GOAL            |-> TargetProfit(size, avg_price, CLOSE_PROFIT_THRESHOLD),
                 TRAILING_PROFIT        |-> TargetProfit(size, avg_price, TRAILING_PROFIT_THRESHHOLD)])
    IN  IF DOMAIN hist = {} THEN snap ELSE ResetOrFlags(updated, snap)

SideNames == {"LONG", "SHORT", "NET"}

MergeSymbol(historical, symbol, sides) ==
    IF symbol \notin DOMAIN historical
      THEN Put(historical, symbol,
               [side \in DOMAIN sides |->
                   IF side \in SideNames THEN NewSymbolSide(sides[side]) ELSE sides[side]])
      ELSE Put(historical, symbol,
               PutAll(historical[symbol],
                      [side \in SideNames |->
                          MergeSide(Get(historical[symbol], side, EmptyDict),
                                    Get(sides, side, EmptyDict))]))

RECURSIVE MergeAll(_, _, _)
MergeAll(historical, snapshot, todo) ==
    IF todo = {} THEN historical
    ELSE LET symbol == CHOOSE x \in todo : TRUE
         IN  MergeAll(MergeSymbol(historical, symbol, snapshot[symbol]), snapshot, todo \ {symbol})

\* the snapshot the merge works from
SnapshotOf(ps) == aggregate_position_data(process_positions(ps))

\* the historical summary get_total_positions(save=True) persists
MergedSummary(historical, ps) ==
    LET snapshot == SnapshotOf(ps)
    IN  MergeAll(historical, snapshot, DOMAIN snapshot)

(***************************************************************************)
(* The accounting cycle: the broker's open positions change between polls, *)
(* get_total_positions merges the cached positions into the record.        *)
(***************************************************************************)
RawPosition(ticket, symbol, type, volume, price_open, quote, time_raw) ==
    [ticket |-> ticket, symbol |-> symbol, type |-> type, volume |-> volume,
     price_open |-> price_open, price_current |-> quote.price_current,
     profit |-> quote.profit, time_open |-> FormatTime(time_raw), time_raw |-> time_raw]

OpenTickets == {positions[i].ticket : i \in 1..Len(positions)}

RemoveAt(s, i) == [j \in 1..(Len(s) - 1) |-> IF j < i THEN s[j] ELSE s[j + 1]]

InitAccounting ==
    /\ positions = <<>>
    /\ historical_summary = EmptyDict
    /\ events = 0
    /\ snapshot_summary = EmptyDict
    /\ NoTracker /\ NoCall /\ NoTrade /\ NoRest

\* the broker opens a position; the next poll caches it
BrokerOpenOf(tickets) ==
    /\ events < MaxEvents
    /\ tickets \ OpenTickets # {}
    /\ \E symbol \in AccountSymbols, type \in Types, volume \in AccountVolumes,
          price_open \in AccountOpenPrices, quote \in Quotes, time_raw \in AccountTimes :
          LET ticket == CHOOSE t \in tickets \ OpenTickets :
                            \A u \in tickets \ OpenTickets : t <= u
          IN  positions' = Append(positions,
                  RawPosition(ticket, symbol, type, volume, price_open, quote, time_raw))
    /\ events' = events + 1
    /\ snapshot_summary' = EmptyDict
    /\ result' = None
    /\ UNCHANGED <<restVars, historical_summary, trackerVars, call, tradeVars>>

BrokerOpen == BrokerOpenOf(Tickets)

\* the broker closes a position
BrokerClose ==
    /\ events < MaxEvents
    /\ \E i \in 1..Len(positions) : positions' = RemoveAt(positions, i)
    /\ events' = events + 1
    /\ snapshot_summary' = EmptyDict
    /\ result' = None
    /\ UNCHANGED <<restVars, historical_summary, trackerVars, call, tradeVars>>

\* price and profit of an open position move
BrokerQuote ==
    /\ events < MaxEvents
    /\ \E i \in 1..Len(positions), quote \in Quotes :
          /\ positions[i].price_current # quote.price_current
          /\ positions' = [positions EXCEPT ![i] =
                              PutAll(@, [price_current |-> quote.price_current,
                                         profit |-> quote.profit])]
    /\ events' = events + 1
    /\ snapshot_summary' = EmptyDict
    /\ result' = None
    /\ UNCHANGED <<restVars, historical_summary, trackerVars, call, tradeVars>>

\* what becomes of the write of the accounting file: written, refused before
\* the file is touched (open fails), or broken off after open() has emptied
\* the file; an unreadable file loads as {} (lines 64-71)
WriteOutcomes == {"written", "failed", "truncated"}

\* mutant of save_total_positions: the failure of the write is raised
save_total_positions_raising(file, summary, outcome) ==
    [file   |-> IF outcome = "written" THEN summary
                ELSE IF outcome = "failed" THEN file ELSE EmptyDict,
     raised |-> outcome # "written"]

\* save_total_positions (lines 497-509): what the file holds after the call,
\* and whether the call raised
save_total_positions(file, summary, outcome) ==
    [file   |-> IF outcome = "written" THEN summary
                ELSE IF outcome = "failed" THEN file ELSE EmptyDict,
     raised |-> FALSE]

\* the snapshot_summary get_total_positions returns (line 329): the sides of a
\* symbol new to the record are the very dictionaries stored in the record
\* (line 229), so they carry the fields lines 232-238 added
ReturnedSummary(historical, ps) ==
    LET snapshot == SnapshotOf(ps)
    IN  [symbol \in DOMAIN snapshot |->
            IF symbol \in DOMAIN historical THEN snapshot[symbol]
            ELSE MergeSymbol(historical, symbol, snapshot[symbol])[symbol]]

\* get_total_positions(save=True): lines 211-214 return {} on no positions;
\* result records how the call ended, snapshot_summary what it returned
GetTotalPositionsWith(outcomes) ==
    /\ \E outcome \in outcomes :
          LET saved == save_total_positions(historical_summary,
                           MergedSummary(historical_summary, positions), outcome)
              again == result # None /\ TheValue(result).write \in {"failed", "truncated"}
          IN  IF positions = <<>>
                THEN /\ outcome = "written"
                     /\ historical_summary' = historical_summary
                     /\ snapshot_summary' = EmptyDict
                     /\ result' = Some([write |-> "none", raised |-> FALSE, again |-> again])
                ELSE /\ historical_summary' = saved.file
                     /\ snapshot_summary' = IF saved.raised THEN EmptyDict
                                            ELSE ReturnedSummary(historical_summary, positions)
                     /\ result' = Some([write |-> outcome, raised |-> saved.raised,
                                        again |-> again])
    /\ events' = 0
    /\ UNCHANGED <<restVars, positions, trackerVars, call, tradeVars>>

\* the accounting cycle with a store that takes every write
GetTotalPositions == GetTotalPositionsWith({"written"})

NextAccounting == BrokerOpen \/ BrokerClose \/ BrokerQuote \/ GetTotalPositions

SpecAccounting == InitAccounting /\ [][NextAccounting]_vars

(***************************************************************************)
(* The accounting cycle over a store whose writes may fail.                *)
(***************************************************************************)
StoreTickets == {1}

StoreOpen == BrokerOpenOf(StoreTickets)

GetTotalPositionsUnreliable == GetTotalPositionsWith(WriteOutcomes)

NextStore == StoreOpen \/ BrokerClose \/ BrokerQuote \/ GetTotalPositionsUnreliable

SpecStore == InitAccounting /\ [][NextStore]_vars

(***************************************************************************)
(* The snapshot builder as a function of the raw position list.            *)
(***************************************************************************)
\* the positions of one poll: tickets 1, 2, ... in list order, each with the
\* quote of its place
QuoteAt(i) == [price_current |-> 12500 + 100 * i, profit |-> 150 * i - 200]

RawLists(n) ==
    {[i \in 1..n |-> RawPosition(i, f[i].symbol, f[i].type, f[i].volume,
                                 f[i].price_open, QuoteAt(i), f[i].time_raw)] :
        f \in [1..n -> [symbol : Symbols, type : Types, volume : Volumes,
                        price_open : OpenPrices, time_raw : Times]]}

\* three EURUSD BUYs of 0.01, 0.02 and 0.01 lots opened at 1.1000, 1.1010 and
\* 1.0990 (volumes in 0.01 lots, prices in 0.00001), the last two opened at
\* the same second
ExamplePositions ==
    <<RawPosition(1, "EURUSD", "BUY", 1, 110000, QuoteAt(1), 1),
      RawPosition(2, "EURUSD", "BUY", 2, 110100, QuoteAt(2), 2),
      RawPosition(3, "EURUSD", "BUY", 1, 109900, QuoteAt(3), 2)>>

InitSnapshot ==
    /\ positions \in UNION {RawLists(n) : n \in 0..MaxRaw} \cup {ExamplePositions}
    /\ historical_summary = EmptyDict
    /\ events = 0
    /\ snapshot_summary = EmptyDict
    /\ NoTracker /\ NoCall /\ NoTrade /\ NoRest

BuildSnapshot ==
    /\ snapshot_summary = EmptyDict
    /\ snapshot_summary' = SnapshotOf(positions)
    /\ UNCHANGED <<restVars, positions, historical_summary, events, trackerVars, callVars, tradeVars>>

NextSnapshot == BuildSnapshot

SpecSnapshot == InitSnapshot /\ [][NextSnapshot]_vars

(***************************************************************************)
(* Position state tracker (position_state_tracker.py).                     *)
(* Profit percentages are counted in thousandths of a percent, so the      *)
(* profit_step of 0.01 is 10 and a peak_profit of 10.0 is 10000.           *)
(***************************************************************************)
PctScale == 100000    \* (current - entry) / entry * 100, in thousandths of a percent

\* profit_step = 0.01 of update_position_profit_chain, in thousandths of a percent
DefaultProfitStep == 10

\* max_chain_length = 10 of update_position_profit_chain
DefaultMaxChainLength == 10

\* retrace_pct = 0.382 of check_trailing_retrace
DefaultRetracePct == [num |-> 382, den |-> 1000]

Truthy(o) == o # None /\ TheValue(o) # 0

\* calculate_profit_pct: 0.0 when a price is missing or zero
calculate_profit_pct(position) ==
    LET entry == IF "price_open" \in DOMAIN position THEN Some(position.price_open) ELSE None
        current == IF "price_current" \in DOMAIN position THEN Some(position.price_current) ELSE None
    IN  IF Truthy(entry) /\ Truthy(current)
          THEN IF Get(position, "type", "") = "SELL"
                 THEN Div((TheValue(entry) - TheValue(current)) * PctScale, TheValue(entry))
                 ELSE Div((TheValue(current) - TheValue(entry)) * PctScale, TheValue(entry))
          ELSE 0

\* Python round(n / d): to the nearest integer, ties to the even one
RoundHalfEven(n, d) ==
    LET q == Div(n - (n % d), d)
        r == n % d
    IN  IF 2 * r < d THEN q
        ELSE IF 2 * r > d THEN q + 1
        ELSE IF q % 2 = 0 THEN q ELSE q + 1

\* chain[-n:]
LastN(chain, n) ==
    IF n = 0 \/ Len(chain) <= n THEN chain
    ELSE SubSeq(chain, Len(chain) - n + 1, Len(chain))

\* mutant of AppendSample: the sample is appended even when it repeats the last entry
AppendSampleAlways(chain, rounded_profit) == Append(chain, rounded_profit)

\* lines 89-91: append only if different from the last entry
AppendSample(chain, rounded_profit) ==
    IF chain = <<>> \/ chain[Len(chain)] # rounded_profit
      THEN Append(chain, rounded_profit)
      ELSE chain

\* lines 93-95: enforce max length
EnforceMaxLength(chain, max_chain_length) ==
    IF Len(chain) > max_chain_length THEN LastN(chain, max_chain_length) ELSE chain

update_position_profit_chain(position, profit_step, max_chain_length) ==
    LET profit_pct == calculate_profit_pct(position)
        p1 == IF "profit_chain" \in DOMAIN position THEN position
              ELSE Put(position, "profit_chain", <<>>)
        p2 == IF "peak_profit" \in DOMAIN p1 THEN p1
              ELSE Put(p1, "peak_profit", profit_pct)
        p3 == Put(p2, "peak_profit", Max2(Get(p2, "peak_profit", profit_pct), profit_pct))
        rounded_profit == RoundHalfEven(profit_pct, profit_step) * profit_step
        chain == AppendSample(Get(p3, "profit_chain", <<>>), rounded_profit)
    IN  Put(p3, "profit_chain", EnforceMaxLength(chain, max_chain_length))

\* mutant of check_trailing_retrace: strictly more than retrace_pct is required
check_trailing_retrace_strict(position, retrace_pct) ==
    LET peak == Get(position, "peak_profit", 0)
        current == calculate_profit_pct(position)
    IN  IF peak <= 0 THEN FALSE
        ELSE (peak - current) * retrace_pct.den > retrace_pct.num * peak

\* (peak - current) / peak >= retrace_pct, for peak > 0
check_trailing_retrace(position, retrace_pct) ==
    LET peak == Get(position, "peak_profit", 0)
        current == calculate_profit_pct(position)
    IN  IF peak <= 0 THEN FALSE
        ELSE (peak - current) * retrace_pct.den >= retrace_pct.num * peak

\* mutant of check_failed_bounce: the sign of the peak is not looked at
check_failed_bounce_any_peak(position, lookback) ==
    LET chain == Get(position, "profit_chain", <<>>)
        recent == LastN(chain, lookback)
    IN  IF Len(chain) < lookback THEN FALSE
        ELSE \A i \in 1..(Len(recent) - 1) : recent[i] > recent[i + 1]

\* check_failed_bounce: a peak below zero and the last lookback entries of the
\* chain each lower than the one before
check_failed_bounce(position, lookback) ==
    LET peak == Get(position, "peak_profit", 0)
        chain == Get(position, "profit_chain", <<>>)
        recent == LastN(chain, lookback)
    IN  IF peak >= 0 \/ Len(chain) < lookback THEN FALSE
        ELSE \A i \in 1..(Len(recent) - 1) : recent[i] > recent[i + 1]

(***************************************************************************)
(* One position under update_position_profit_chain: every observation sets *)
(* price_current and runs the update with the default step and length.     *)
(***************************************************************************)
MaxSamples == 12

TrackerOpenPrice == 25000

\* 0.004 % apart, so that several prices round to the same sample
TrackerPrices == {25001, 25002, 25003, 25004}

TrackerPosition(type, price_current) ==
    [ticket |-> 1, symbol |-> "EURUSD", type |-> type, volume |-> 1,
     price_open |-> TrackerOpenPrice, price_current |-> price_current]

RoundedSample(p, profit_step) ==
    RoundHalfEven(calculate_profit_pct(p), profit_step) * profit_step

InitTracker ==
    /\ \E type \in Types, price \in TrackerPrices : tracked = TrackerPosition(type, price)
    /\ samples = <<>>
    /\ positions = <<>>
    /\ NoAccount /\ NoCall /\ NoTrade /\ NoRest

Observe ==
    /\ Len(samples) < MaxSamples
    /\ \E price \in TrackerPrices :
          LET observed == Put(tracked, "price_current", price)
              sample == RoundedSample(observed, DefaultProfitStep)
          IN  /\ tracked' = update_position_profit_chain(observed, DefaultProfitStep,
                                                         DefaultMaxChainLength)
              /\ samples' = IF samples = <<>> \/ samples[Len(samples)] # sample
                              THEN Append(samples, sample) ELSE samples
    /\ UNCHANGED <<restVars, positions, accountVars, callVars, tradeVars>>

NextTracker == Observe

SpecTracker == InitTracker /\ [][NextTracker]_vars

(***************************************************************************)
(* check_trailing_retrace as a function of the position and retrace_pct.   *)
(***************************************************************************)
RetracePrices == {24000, 25000, 26000, 26250, 26500, 26750, 27500}

\* no peak yet, or a peak of -1 %, 0 %, 5 %, 10 %
RetracePeaks == {None, Some(0 - 1000), Some(0), Some(5000), Some(10000)}

RetracePcts == {DefaultRetracePct, [num |-> 5, den |-> 10]}

RetracePosition(type, price_current, peak) ==
    LET p == PutAll(TrackerPosition(type, price_current),
                    [profit |-> IF type = "SELL" THEN TrackerOpenPrice - price_current
                                ELSE price_current - TrackerOpenPrice])
    IN  IF peak = None THEN p ELSE Put(p, "peak_profit", TheValue(peak))

InitRetrace ==
    /\ \E type \in Types, price \in RetracePrices, peak \in RetracePeaks,
          retrace_pct \in RetracePcts :
          call = [position |-> RetracePosition(type, price, peak),
                  retrace_pct |-> retrace_pct]
    /\ result = None
    /\ positions = <<>>
    /\ NoAccount /\ NoTracker /\ NoTrade /\ NoRest

CheckTrailingRetrace ==
    /\ result = None
    /\ result' = Some(check_trailing_retrace(call.position, call.retrace_pct))
    /\ UNCHANGED <<restVars, positions, accountVars, trackerVars, call, tradeVars>>

NextRetrace == CheckTrailingRetrace

SpecRetrace == InitRetrace /\ [][NextRetrace]_vars

(***************************************************************************)
(* Stop-loss engine (sl_managers.py).  Fractions such as pct_profit and    *)
(* the decimal settings are num/den pairs with a positive den, compared by *)
(* cross-multiplication.                                                   *)
(***************************************************************************)
Frac(n, d) == [num |-> n, den |-> d]

FracLess(a, b) == a.num * b.den < b.num * a.den

FracNeg(a) == [num |-> 0 - a.num, den |-> a.den]

\* mutant of get_autotrade_param: the "defaults" section is read before the
\* overrides of the symbol
get_autotrade_param_defaults_first(settings, symbol, key, default) ==
    IF settings = EmptyDict THEN default
    ELSE LET symbol_overrides == Get(settings, "symbol_overrides", EmptyDict)
             defaults == Get(settings, "defaults", EmptyDict)
         IN  IF key \in DOMAIN defaults THEN defaults[key]
             ELSE IF symbol \in DOMAIN symbol_overrides
                        /\ key \in DOMAIN symbol_overrides[symbol]
               THEN symbol_overrides[symbol][key]
               ELSE default

\* get_autotrade_param: no settings file -> default; a symbol override first,
\* then the "defaults" section, then default
get_autotrade_param(settings, symbol, key, default) ==
    IF settings = EmptyDict THEN default
    ELSE LET symbol_overrides == Get(settings, "symbol_overrides", EmptyDict)
         IN  IF symbol \in DOMAIN symbol_overrides /\ key \in DOMAIN symbol_overrides[symbol]
               THEN symbol_overrides[symbol][key]
               ELSE Get(Get(settings, "defaults", EmptyDict), key, default)

\* ConfigWatcher.get_param: config[symbol][param], then config["defaults"][param]
get_param(settings, symbol, param, fallback) ==
    Get(Get(settings, symbol, EmptyDict), param,
        Get(Get(settings, "defaults", EmptyDict), param, fallback))

\* the config dict sl_trailing_staircase builds, lines 144-152
StaircaseConfig(settings, symbol) ==
    [max_loss_decimal |->
         get_autotrade_param(settings, symbol, "max_loss_decimal", Frac(5, 1000)),
     initial_sl_buffer_atr |->
         get_autotrade_param(settings, symbol, "initial_sl_buffer_atr", Frac(15, 10)),
     min_ticks_to_hold |->
         get_autotrade_param(settings, symbol, "min_ticks_to_hold", 9),
     trailing_profit_threshold_decimal |->
         get_autotrade_param(settings, symbol, "trailing_profit_threshold_decimal",
                             Frac(1, 1000)),
     atr_multiplier |->
         get_autotrade_param(settings, symbol, "atr_multiplier", Frac(2, 1)),
     break_even_offset |->
         get_autotrade_param(settings, symbol, "break_even_offset_decimal", Frac(1, 10))]

PriceNow(pos, tick) == IF pos.type = "BUY" THEN tick.bid ELSE tick.ask

\* atr * factor, whole on the ATR values used here
Scaled(atr, factor) == Div(atr * factor.num, factor.den)

\* mutant of simple_manage_sl: a price at the break-even trigger already trails
simple_manage_sl_at_trigger(pos, tick, atr, config) ==
    LET open_price == pos.price_open
        current_sl == Get(pos, "sl", 0)
        price_now == PriceNow(pos, tick)
        multiplier == config.atr_multiplier
        break_even_offset == config.break_even_offset
    IN  IF pos.type = "BUY"
          THEN LET trail_sl == Max2(price_now - Scaled(atr, multiplier),
                                    open_price + Scaled(atr, break_even_offset))
               IN  IF price_now >= open_price + atr /\ (current_sl = 0 \/ trail_sl > current_sl)
                     THEN Some(trail_sl) ELSE None
          ELSE LET trail_sl == Min2(price_now + Scaled(atr, multiplier),
                                    open_price - Scaled(atr, break_even_offset))
               IN  IF price_now <= open_price - atr /\ (current_sl = 0 \/ trail_sl < current_sl)
                     THEN Some(trail_sl) ELSE None

\* simple_manage_sl: break-even then trail by ATR; None when nothing better
simple_manage_sl(pos, tick, atr, config) ==
    LET open_price == pos.price_open
        current_sl == Get(pos, "sl", 0)
        price_now == PriceNow(pos, tick)
        multiplier == config.atr_multiplier
        break_even_offset == config.break_even_offset
    IN  IF pos.type = "BUY"
          THEN LET trail_sl == Max2(price_now - Scaled(atr, multiplier),
                                    open_price + Scaled(atr, break_even_offset))
               IN  IF price_now > open_price + atr /\ (current_sl = 0 \/ trail_sl > current_sl)
                     THEN Some(trail_sl) ELSE None
          ELSE LET trail_sl == Min2(price_now + Scaled(atr, multiplier),
                                    open_price - Scaled(atr, break_even_offset))
               IN  IF price_now < open_price - atr /\ (current_sl = 0 \/ trail_sl < current_sl)
                     THEN Some(trail_sl) ELSE None

\* load_cached_pos_by_ticket: the first cached position of that ticket, or {}
load_cached_pos_by_ticket(cached_positions, ticket) ==
    IF \E i \in 1..Len(cached_positions) : cached_positions[i].ticket = ticket
      THEN cached_positions[CHOOSE i \in 1..Len(cached_positions) :
                               /\ cached_positions[i].ticket = ticket
                               /\ \A j \in 1..(i - 1) : cached_positions[j].ticket # ticket]
      ELSE EmptyDict

\* direction-aware profit as a fraction of the entry price, line 156
PctProfit(pos, tick) ==
    IF pos.type = "BUY" THEN Frac(PriceNow(pos, tick) - pos.price_open, pos.price_open)
    ELSE Frac(pos.price_open - PriceNow(pos, tick), pos.price_open)

Decision(recommended_sl, close_signal) ==
    [recommended_sl |-> recommended_sl, close_signal |-> close_signal]

\* mutant of sl_trailing_staircase: the waiting period is tested before the hard stop
sl_trailing_staircase_wait_first(symbol, pos, tick, atr, cached_positions, settings) ==
    LET cached == load_cached_pos_by_ticket(cached_positions, pos.ticket)
        config == StaircaseConfig(settings, symbol)
        pct_profit == PctProfit(pos, tick)
        elapsed_ticks == Len(Get(cached, "profit_chain", <<>>))
        atr_buffer_cutoff == Frac(0 - atr * config.initial_sl_buffer_atr.num,
                                  config.initial_sl_buffer_atr.den * pos.price_open)
    IN  IF elapsed_ticks < config.min_ticks_to_hold THEN Decision(None, FALSE)
        ELSE IF FracLess(pct_profit, FracNeg(config.max_loss_decimal))
          THEN Decision(None, TRUE)
        ELSE IF FracLess(pct_profit, atr_buffer_cutoff) THEN Decision(None, TRUE)
        ELSE IF FracLess(config.trailing_profit_threshold_decimal, pct_profit)
          THEN Decision(simple_manage_sl(pos, tick, atr, config), FALSE)
        ELSE Decision(None, FALSE)

\* mutant of sl_trailing_staircase: the waiting period is not tested at all
sl_trailing_staircase_no_wait(symbol, pos, tick, atr, cached_positions, settings) ==
    LET config == StaircaseConfig(settings, symbol)
        pct_profit == PctProfit(pos, tick)
        atr_buffer_cutoff == Frac(0 - atr * config.initial_sl_buffer_atr.num,
                                  config.initial_sl_buffer_atr.den * pos.price_open)
    IN  IF FracLess(pct_profit, FracNeg(config.max_loss_decimal))
          THEN Decision(None, TRUE)
        ELSE IF FracLess(pct_profit, atr_buffer_cutoff) THEN Decision(None, TRUE)
        ELSE IF FracLess(config.trailing_profit_threshold_decimal, pct_profit)
          THEN Decision(simple_manage_sl(pos, tick, atr, config), FALSE)
        ELSE Decision(None, FALSE)

\* mutant of sl_trailing_staircase: the trailing activation is tested before the
\* ATR buffer
sl_trailing_staircase_trail_first(symbol, pos, tick, atr, cached_positions, settings) ==
    LET cached == load_cached_pos_by_ticket(cached_positions, pos.ticket)
        config == StaircaseConfig(settings, symbol)
        pct_profit == PctProfit(pos, tick)
        elapsed_ticks == Len(Get(cached, "profit_chain", <<>>))
        atr_buffer_cutoff == Frac(0 - atr * config.initial_sl_buffer_atr.num,
                                  config.initial_sl_buffer_atr.den * pos.price_open)
    IN  IF FracLess(pct_profit, FracNeg(config.max_loss_decimal))
          THEN Decision(None, TRUE)
        ELSE IF elapsed_ticks < config.min_ticks_to_hold THEN Decision(None, FALSE)
        ELSE IF FracLess(config.trailing_profit_threshold_decimal, pct_profit)
          THEN Decision(simple_manage_sl(pos, tick, atr, config), FALSE)
        ELSE IF FracLess(pct_profit, atr_buffer_cutoff) THEN Decision(None, TRUE)
        ELSE Decision(None, FALSE)

\* mutant of sl_trailing_staircase: an active trail also asks for the close
sl_trailing_staircase_trail_closes(symbol, pos, tick, atr, cached_positions, settings) ==
    LET cached == load_cached_pos_by_ticket(cached_positions, pos.ticket)
        config == StaircaseConfig(settings, symbol)
        pct_profit == PctProfit(pos, tick)
        elapsed_ticks == Len(Get(cached, "profit_chain", <<>>))
        atr_buffer_cutoff == Frac(0 - atr * config.initial_sl_buffer_atr.num,
                                  config.initial_sl_buffer_atr.den * pos.price_open)
    IN  IF FracLess(pct_profit, FracNeg(config.max_loss_decimal))
          THEN Decision(None, TRUE)
        ELSE IF elapsed_ticks < config.min_ticks_to_hold THEN Decision(None, FALSE)
        ELSE IF FracLess(pct_profit, atr_buffer_cutoff) THEN Decision(None, TRUE)
        ELSE IF FracLess(config.trailing_profit_threshold_decimal, pct_profit)
          THEN Decision(simple_manage_sl(pos, tick, atr, config), TRUE)
        ELSE Decision(None, FALSE)

\* sl_trailing_staircase: hard stop, waiting period, ATR buffer, trailing, hold;
\* the cached positions and the settings file it reads are arguments here
sl_trailing_staircase(symbol, pos, tick, atr, cached_positions, settings) ==
    LET cached == load_cached_pos_by_ticket(cached_positions, pos.ticket)
        config == StaircaseConfig(settings, symbol)
        pct_profit == PctProfit(pos, tick)
        elapsed_ticks == Len(Get(cached, "profit_chain", <<>>))
        atr_buffer_cutoff == Frac(0 - atr * config.initial_sl_buffer_atr.num,
                                  config.initial_sl_buffer_atr.den * pos.price_open)
    IN  IF FracLess(pct_profit, FracNeg(config.max_loss_decimal))
          THEN Decision(None, TRUE)
        ELSE IF elapsed_ticks < config.min_ticks_to_hold THEN Decision(None, FALSE)
        ELSE IF FracLess(pct_profit, atr_buffer_cutoff) THEN Decision(None, TRUE)
        ELSE IF FracLess(config.trailing_profit_threshold_decimal, pct_profit)
          THEN Decision(simple_manage_sl(pos, tick, atr, config), FALSE)
        ELSE Decision(None, FALSE)

(***************************************************************************)
(* sl_trailing_staircase as a function of its arguments, the cached        *)
(* positions and the settings file.                                        *)
(***************************************************************************)
TradeSymbol == "EURUSD"

TradeOpenPrice == 10000

\* the ask is 2 above the bid
Ticks == {[bid |-> b, ask |-> b + 2] : b \in {9900, 9960, 10000, 10040, 10100}}

ATRValues == {20, 50}

\* a broker position as return_positions reports it; price_current is the bid
\* for a BUY and the ask for a SELL
PositionDict(ticket, type, sl, tick) ==
    LET price_current == IF type = "BUY" THEN tick.bid ELSE tick.ask
    IN  [ticket |-> ticket, symbol |-> TradeSymbol, type |-> type, volume |-> 1,
         price_open |-> TradeOpenPrice, sl |-> sl, price_current |-> price_current,
         profit |-> IF type = "BUY" THEN price_current - TradeOpenPrice
                    ELSE TradeOpenPrice - price_current]

\* the stop-loss a position is opened with: none, or 2 % away from the entry
InitialStops(type) == IF type = "BUY" THEN {0, 9800} ELSE {0, 10200}

\* no settings file, a shorter waiting period, or a trailing threshold below zero
Settings ==
    {EmptyDict,
     [defaults |-> [min_ticks_to_hold |-> 2]],
     [symbol_overrides |->
         [EURUSD |-> [trailing_profit_threshold_decimal |-> Frac(0 - 2, 100)]]]}

\* a cached position whose profit_chain has n entries
CachedWithChain(ticket, type, n) ==
    PutAll(PositionDict(ticket, type, 0, [bid |-> TradeOpenPrice, ask |-> TradeOpenPrice]),
           [profit_chain |-> [i \in 1..n |-> (i % 2) * DefaultProfitStep],
            peak_profit |-> IF n > 1 THEN DefaultProfitStep ELSE 0,
            CLOSE_SIGNAL |-> FALSE, risk_at_sl |-> 0])

InitStaircase ==
    /\ \E type \in Types, tick \in Ticks, atr \in ATRValues, settings \in Settings,
          n \in 0..DefaultMaxChainLength :
          \E sl \in InitialStops(type) :
             call = [symbol |-> TradeSymbol, pos |-> PositionDict(1, type, sl, tick),
                     tick |-> tick, atr |-> atr, settings |-> settings,
                     cached_positions |-> IF n = 0 THEN <<>>
                                          ELSE <<CachedWithChain(1, type, n)>>]
    /\ result = None
    /\ positions = <<>>
    /\ NoAccount /\ NoTracker /\ NoTrade /\ NoRest

EvaluateStaircase ==
    /\ result = None
    /\ result' = Some(sl_trailing_staircase(call.symbol, call.pos, call.tick, call.atr,
                                            call.cached_positions, call.settings))
    /\ UNCHANGED <<restVars, positions, accountVars, trackerVars, call, tradeVars>>

NextStaircase == EvaluateStaircase

SpecStaircase == InitStaircase /\ [][NextStaircase]_vars

(***************************************************************************)
(* simple_manage_sl as a function of the position, the tick, the ATR and   *)
(* the config.                                                             *)
(***************************************************************************)
\* bids below, at and above the break-even triggers of both ATR values, for
\* BUY (bid) and SELL (ask = bid + 2)
BreakEvenBids == {9900, 9948, 9950, 9976, 9978, 10000, 10020, 10022, 10050, 10052, 10100}

\* no stop-loss, the initial one, one just past the entry, one far in profit
BreakEvenStops(type) ==
    IF type = "BUY" THEN {0, 9800, 10003, 10060} ELSE {0, 10200, 9997, 9940}

\* the default multiplier 2.0 and offset 0.1, or both 0.5
BreakEvenConfigs ==
    {StaircaseConfig(EmptyDict, TradeSymbol),
     StaircaseConfig([defaults |-> [atr_multiplier |-> Frac(1, 2),
                                    break_even_offset_decimal |-> Frac(1, 2)]],
                     TradeSymbol)}

InitBreakEven ==
    /\ \E type \in Types, bid \in BreakEvenBids, atr \in ATRValues,
          config \in BreakEvenConfigs :
          \E sl \in BreakEvenStops(type) :
             LET tick == [bid |-> bid, ask |-> bid + 2]
             IN  call = [pos |-> PositionDict(1, type, sl, tick), tick |-> tick,
                         atr |-> atr, config |-> config]
    /\ result = None
    /\ positions = <<>>
    /\ NoAccount /\ NoTracker /\ NoTrade /\ NoRest

SimpleManageSl ==
    /\ result = None
    /\ result' = Some(simple_manage_sl(call.pos, call.tick, call.atr, call.config))
    /\ UNCHANGED <<restVars, positions, accountVars, trackerVars, call, tradeVars>>

NextBreakEven == SimpleManageSl

SpecBreakEven == InitBreakEven /\ [][NextBreakEven]_vars

(***************************************************************************)
(* Volatility ladder (volatility_ladder.py).  A risk profile maps each     *)
(* timeframe to its mean_atr_pct, a num/den pair; stop prices are num/den  *)
(* pairs too, since a trail target need not be a whole price.              *)
(***************************************************************************)
FracGeq(a, b) == a.num * b.den >= b.num * a.den

FracEq(a, b) == a.num * b.den = b.num * a.den

\* x / 100.0
Hundredth(x) == Frac(x.num, x.den * 100)

\* calculate_trail: open_price +/- trail_pct / 100.0 * open_price
calculate_trail(open_price, trail_pct, pos_type) ==
    LET step == Hundredth(trail_pct)
    IN  IF pos_type = "BUY"
          THEN Frac(open_price * step.den + step.num * open_price, step.den)
          ELSE Frac(open_price * step.den - step.num * open_price, step.den)

Timeframes == {"1m", "5m", "15m", "1h", "1d"}

LadderResult(recommended_sl, take_profit) ==
    [recommended_sl |-> recommended_sl, take_profit |-> take_profit]

\* the first rung of the ladder whose threshold move_pct meets, lines 107-123
WalkLadder(ladder, move_pct, open_price, pos_type) ==
    IF \E i \in 1..Len(ladder) : FracGeq(move_pct, ladder[i].threshold)
      THEN LET rung == ladder[CHOOSE i \in 1..Len(ladder) :
                                 /\ FracGeq(move_pct, ladder[i].threshold)
                                 /\ \A j \in 1..(i - 1) :
                                       ~FracGeq(move_pct, ladder[j].threshold)]
           IN  IF rung.action = "TAKE_PROFIT" THEN LadderResult(None, TRUE)
               ELSE LadderResult(
                        Some(calculate_trail(open_price, TheValue(rung.trail_to), pos_type)),
                        FALSE)
      ELSE LadderResult(None, FALSE)

\* trailing_staircase; profile is what load_risk_profile returned, None when
\* there is no profile
trailing_staircase(profile, pos, tick) ==
    IF profile = None \/ TheValue(profile) = EmptyDict THEN LadderResult(None, FALSE)
    ELSE IF \E tf \in Timeframes : tf \notin DOMAIN TheValue(profile)
      THEN LadderResult(None, FALSE)
    ELSE
      LET pr == TheValue(profile)
          pos_type == pos.type
          open_price == pos.price_open
          current_price == IF pos_type = "BUY" THEN tick.bid ELSE tick.ask
          one_m_pct == Hundredth(pr["1m"].mean_atr_pct)
          five_m_pct == Hundredth(pr["5m"].mean_atr_pct)
          fifteen_m_pct == Hundredth(pr["15m"].mean_atr_pct)
          one_h_pct == Hundredth(pr["1h"].mean_atr_pct)
          one_d_pct == Hundredth(pr["1d"].mean_atr_pct)
          move_pct == IF pos_type = "BUY"
                        THEN Frac((current_price - open_price) * 100, open_price)
                        ELSE Frac((open_price - current_price) * 100, open_price)
          ladder == <<[threshold |-> one_d_pct, trail_to |-> None, action |-> "TAKE_PROFIT"],
                      [threshold |-> one_h_pct, trail_to |-> Some(fifteen_m_pct),
                       action |-> "TRAIL_15M"],
                      [threshold |-> fifteen_m_pct, trail_to |-> Some(five_m_pct),
                       action |-> "TRAIL_5M"],
                      [threshold |-> five_m_pct, trail_to |-> Some(one_m_pct),
                       action |-> "TRAIL_1M"]>>
      IN  WalkLadder(ladder, move_pct, open_price, pos_type)

Profile(m1, m5, m15, h1, d1) ==
    [tf \in Timeframes |->
        [mean_atr_pct |-> CASE tf = "1m" -> m1 [] tf = "5m" -> m5 [] tf = "15m" -> m15
                            [] tf = "1h" -> h1 [] tf = "1d" -> d1]]

\* 0.1 %, 0.3 %, 0.8 %, 2 %, 5 %
PercentProfile == Profile(Frac(1, 10), Frac(3, 10), Frac(8, 10), Frac(2, 1), Frac(5, 1))

\* 0.2 %, 0.5 %, 1 %, 3 %, 8 %
WiderProfile == Profile(Frac(2, 10), Frac(5, 10), Frac(1, 1), Frac(3, 1), Frac(8, 1))

\* a profile without its 1d entry
PartialProfile == [tf \in Timeframes \ {"1d"} |-> PercentProfile[tf]]

\* mutant of load_risk_profile: only the symbol's own entry is used
load_risk_profile_own_only(store, symbol) ==
    IF store = None \/ DOMAIN TheValue(store) = {} THEN None
    ELSE IF symbol \in DOMAIN TheValue(store) THEN Some(TheValue(store)[symbol])
    ELSE None

\* load_risk_profile (lines 10-26): store is the content of risk_profiles.json,
\* None when the file cannot be read or parsed; profile.get(symbol) or
\* profile.get('defaults'), where an empty entry counts as missing
load_risk_profile(store, symbol) ==
    IF store = None \/ DOMAIN TheValue(store) = {} THEN None
    ELSE LET profile == TheValue(store)
         IN  IF symbol \in DOMAIN profile /\ DOMAIN profile[symbol] # {}
               THEN Some(profile[symbol])
             ELSE IF "defaults" \in DOMAIN profile THEN Some(profile["defaults"])
             ELSE None

\* risk_profiles.json: unreadable, empty, with and without an entry for the
\* symbol, with and without a 'defaults' entry
RiskStores ==
    {None, Some(EmptyDict),
     Some([EURUSD |-> PercentProfile]),
     Some([EURUSD |-> WiderProfile]),
     Some([EURUSD |-> PartialProfile]),
     Some([EURUSD |-> PartialProfile, defaults |-> PercentProfile]),
     Some([EURUSD |-> EmptyDict, defaults |-> PercentProfile]),
     Some([EURUSD |-> PercentProfile, defaults |-> WiderProfile]),
     Some([BTCUSD |-> PercentProfile]),
     Some([BTCUSD |-> PercentProfile, defaults |-> WiderProfile]),
     Some([defaults |-> PercentProfile]),
     Some([defaults |-> PartialProfile])}

LadderBids == {9400, 9800, 9940, 9996, 9999, 10000, 10001, 10004, 10010, 10060,
               10200, 10600}

InitLadder ==
    /\ \E type \in Types, bid \in LadderBids, store \in RiskStores :
          LET t == [bid |-> bid, ask |-> bid + 2]
          IN  call = [symbol |-> TradeSymbol, pos |-> PositionDict(1, type, 0, t),
                      tick |-> t, store |-> store,
                      profile |-> load_risk_profile(store, TradeSymbol)]
    /\ result = None
    /\ positions = <<>>
    /\ NoAccount /\ NoTracker /\ NoTrade /\ NoRest

TrailingStaircase ==
    /\ result = None
    /\ result' = Some(trailing_staircase(call.profile, call.pos, call.tick))
    /\ UNCHANGED <<restVars, positions, accountVars, trackerVars, call, tradeVars>>

NextLadder == TrailingStaircase

SpecLadder == InitLadder /\ [][NextLadder]_vars

(***************************************************************************)
(* The positions file cycle: save_positions (positions.py) with the        *)
(* tracker, and manage_trade (trade.py) on top of it.                      *)
(***************************************************************************)
\* calculate_individual_risk of positions.py; contract_size is 1.0 without a
\* symbols file
calculate_individual_risk(pos, contract_size) ==
    LET stop_loss == Get(pos, "sl", 0)
        loss == IF pos.type = "BUY"
                  THEN (pos.price_open - stop_loss) * pos.volume * contract_size
                  ELSE (stop_loss - pos.price_open) * pos.volume * contract_size
    IN  IF stop_loss <= 0 THEN 0
        ELSE IF pos.type \notin {"BUY", "SELL"} THEN 0
        ELSE IF loss > 0 THEN loss ELSE 0

enrich_positions_with_risk(ps) ==
    [i \in 1..Len(ps) |-> Put(ps[i], "risk_at_sl", calculate_individual_risk(ps[i], 1))]

process_position_state(pos, settings) ==
    LET max_chain_length == get_param(settings, Get(pos, "symbol", ""),
                                      "min_ticks_to_hold", DefaultMaxChainLength)
        updated == update_position_profit_chain(pos, DefaultProfitStep, max_chain_length)
    IN  Put(updated, "CLOSE_SIGNAL",
            check_trailing_retrace(updated, DefaultRetracePct) \/ check_failed_bounce(updated, 3))

\* calculate_individual_risk of position_state_tracker.py: no contract size
tracker_calculate_individual_risk(pos) ==
    LET volume == Get(pos, "volume", 0)
        price_open == Get(pos, "price_open", 0)
        pos_type == Get(pos, "type", "")
        stop_loss == IF "sl" \in DOMAIN pos THEN pos.sl ELSE 0
        loss == IF pos_type = "BUY" THEN (price_open - stop_loss) * volume
                ELSE (stop_loss - price_open) * volume
    IN  IF "sl" \notin DOMAIN pos \/ stop_loss <= 0 THEN 0
        ELSE IF pos_type \notin {"BUY", "SELL"} THEN 0
        ELSE IF loss > 0 THEN loss ELSE 0

\* enrich_positions_with_risk of position_state_tracker.py: risk_at_sl is
\* added to the positions that have none
tracker_enrich_positions_with_risk(ps) ==
    [i \in 1..Len(ps) |->
        IF "risk_at_sl" \in DOMAIN ps[i] THEN ps[i]
        ELSE Put(ps[i], "risk_at_sl", tracker_calculate_individual_risk(ps[i]))]

\* process_all_positions: line 156 enriches, line 158 processes each position
process_all_positions(ps, settings) ==
    LET enriched == tracker_enrich_positions_with_risk(ps)
    IN  [i \in 1..Len(enriched) |-> process_position_state(enriched[i], settings)]

(***************************************************************************)
(* check_failed_bounce and process_position_state as functions of one      *)
(* cached position: its peak, its chain, the price of this poll and the    *)
(* CLOSE_SIGNAL left by the previous poll.                                  *)
(***************************************************************************)
\* -3 %, -2 %, -1 %, +1 % and +4 % for a BUY opened at 25000
BouncePrices == {24250, 24500, 24750, 25250, 26000}

BounceSamples == {0 - 3000, 0 - 2000, 0 - 1000}

\* the chains update_position_profit_chain can leave: no entry repeats the one
\* before it
BounceChains ==
    {chain \in UNION {[1..n -> BounceSamples] : n \in 0..3} :
        \A i \in 1..(Len(chain) - 1) : chain[i] # chain[i + 1]}

\* a peak of -1 %, 0 % or 5 %
BouncePeaks == {0 - 1000, 0, 5000}

BounceLookbacks == {2, 3}

BounceSettings == {EmptyDict, [defaults |-> [min_ticks_to_hold |-> 2]]}

\* a position of the cache: chain and peak are written together, and
\* CLOSE_SIGNAL is there from the first processing on
BouncePosition(type, price_current, tracking, close_signal) ==
    LET p == TrackerPosition(type, price_current)
        q == IF tracking = None THEN p
             ELSE PutAll(p, [profit_chain |-> TheValue(tracking).chain,
                             peak_profit |-> TheValue(tracking).peak])
    IN  IF close_signal = None THEN q ELSE Put(q, "CLOSE_SIGNAL", TheValue(close_signal))

InitBounce ==
    /\ \E type \in Types, price \in BouncePrices, lookback \in BounceLookbacks,
          settings \in BounceSettings,
          tracking \in {None} \cup {Some([chain |-> c, peak |-> k]) :
                                        c \in BounceChains, k \in BouncePeaks},
          close_signal \in {None, Some(TRUE), Some(FALSE)} :
          call = [position |-> BouncePosition(type, price, tracking, close_signal),
                  lookback |-> lookback, settings |-> settings]
    /\ result = None
    /\ positions = <<>>
    /\ NoAccount /\ NoTracker /\ NoTrade /\ NoRest

CheckFailedBounce ==
    /\ result = None
    /\ result' = Some([function |-> "check_failed_bounce",
                       returned |-> check_failed_bounce(call.position, call.lookback)])
    /\ UNCHANGED <<restVars, positions, accountVars, trackerVars, call, tradeVars>>

ProcessPositionState ==
    /\ result = None
    /\ result' = Some([function |-> "process_position_state",
                       returned |-> process_position_state(call.position, call.settings)])
    /\ UNCHANGED <<restVars, positions, accountVars, trackerVars, call, tradeVars>>

NextBounce == CheckFailedBounce \/ ProcessPositionState

SpecBounce == InitBounce /\ [][NextBounce]_vars

\* previous_map.get(ticket): the last cached position of that ticket
PreviousOf(cached_positions, ticket) ==
    IF \E i \in 1..Len(cached_positions) : cached_positions[i].ticket = ticket
      THEN Some(cached_positions[CHOOSE i \in 1..Len(cached_positions) :
                  /\ cached_positions[i].ticket = ticket
                  /\ \A j \in (i + 1)..Len(cached_positions) :
                        cached_positions[j].ticket # ticket])
      ELSE None

\* mutant of MergePrevious: the remembered peak is not carried over
MergePreviousChainOnly(pos, prev) ==
    IF prev = None THEN pos
    ELSE Put(pos, "profit_chain", Get(TheValue(prev), "profit_chain", <<>>))

\* lines 218-222: merge in previous memory
MergePrevious(pos, prev) ==
    IF prev = None THEN pos
    ELSE PutAll(pos, [profit_chain |-> Get(TheValue(prev), "profit_chain", <<>>),
                      peak_profit |-> Get(TheValue(prev), "peak_profit", 0)])

\* save_positions: the new content of the positions file
save_positions(ps, cached_positions, settings) ==
    LET positions_data == enrich_positions_with_risk(ps)
        merged == [i \in 1..Len(positions_data) |->
                      MergePrevious(positions_data[i],
                                    PreviousOf(cached_positions, positions_data[i].ticket))]
    IN  process_all_positions(merged, settings)

\* return_positions: the broker's positions as dicts, at the current tick
return_positions(broker_positions, tick) ==
    [i \in 1..Len(broker_positions) |->
        LET reported == PositionDict(broker_positions[i].ticket, broker_positions[i].type,
                                     broker_positions[i].sl, tick)
            price_open == broker_positions[i].price_open
        IN  PutAll(reported,
                   [price_open |-> price_open,
                    profit |-> IF reported.type = "BUY"
                                 THEN reported.price_current - price_open
                                 ELSE price_open - reported.price_current])]

\* sl_managers.py line 156 divides by price_open: ZeroDivisionError when it is 0
staircase_raises(pos) == pos.price_open = 0

\* lines 1959-1963: is the recommendation better than the current stop-loss
sl_better(pos_type, recommended_sl, current_sl) ==
    \/ pos_type = "BUY" /\ recommended_sl > current_sl
    \/ pos_type = "SELL" /\ recommended_sl < current_sl

\* mutant of StopLossRequest: the cached copy of the position is evaluated
StopLossRequestFromCache(symbol, pos, tick, atr, cached_positions, settings) ==
    LET cached == load_cached_pos_by_ticket(cached_positions, pos.ticket)
        evaluated == IF cached = EmptyDict THEN pos ELSE cached
        decision == sl_trailing_staircase(symbol, evaluated, tick, atr, cached_positions,
                                          settings)
        recommended_sl == decision.recommended_sl
        current_sl == Get(evaluated, "sl", 0)
    IN  IF recommended_sl # None /\ current_sl # 0
             /\ sl_better(evaluated.type, TheValue(recommended_sl), current_sl)
          THEN Some([position |-> pos.ticket, symbol |-> symbol, type |-> pos.type,
                     sl |-> TheValue(recommended_sl), comment |-> "SL Trailing Adjust"])
          ELSE None

\* the request manage_trade sends for one position, None when it sends nothing
StopLossRequest(symbol, pos, tick, atr, cached_positions, settings) ==
    LET decision == sl_trailing_staircase(symbol, pos, tick, atr, cached_positions, settings)
        recommended_sl == decision.recommended_sl
        current_sl == Get(pos, "sl", 0)
    IN  IF recommended_sl # None /\ current_sl # 0
             /\ sl_better(pos.type, TheValue(recommended_sl), current_sl)
          THEN Some([position |-> pos.ticket, symbol |-> symbol, type |-> pos.type,
                     sl |-> TheValue(recommended_sl), comment |-> "SL Trailing Adjust"])
          ELSE None

\* lines 2003-2015: cached positions, the managed ones replaced, new ones appended
FinalPositions(full_cached_positions, managed) ==
    LET updated(ticket) == \E i \in 1..Len(managed) : managed[i].ticket = ticket
        of(ticket) == managed[CHOOSE i \in 1..Len(managed) :
                         /\ managed[i].ticket = ticket
                         /\ \A j \in (i + 1)..Len(managed) : managed[j].ticket # ticket]
        kept == [i \in 1..Len(full_cached_positions) |->
                    IF updated(full_cached_positions[i].ticket)
                      THEN of(full_cached_positions[i].ticket)
                      ELSE full_cached_positions[i]]
        cached(pos) == \E i \in 1..Len(full_cached_positions) :
                          full_cached_positions[i].ticket = pos.ticket
        new(pos) == ~cached(pos)
    IN  kept \o SelectSeq(managed, new)

\* the tickets the broker hands out
TradeTickets == {1}

\* the waiting period, and with it the chain length, is set to 2 samples
TradeSettings ==
    {[defaults |-> [min_ticks_to_hold |-> 2]]}

TicketsOf(ps) == {ps[i].ticket : i \in 1..Len(ps)}

\* per saved ticket, the largest profit percent computed for it in the save
\* cycles since it entered the positions file
PeakSeenAfter(seen, cached_positions, ps) ==
    [ticket \in TicketsOf(ps) |->
        LET pos == ps[CHOOSE i \in 1..Len(ps) : ps[i].ticket = ticket]
            profit_pct == calculate_profit_pct(pos)
        IN  IF ticket \in TicketsOf(cached_positions) /\ ticket \in DOMAIN seen
              THEN Max2(seen[ticket], profit_pct)
              ELSE profit_pct]

\* the state after algoapp's start-up get_positions() with no position open
InitTrade ==
    /\ broker = <<>>
    /\ last_tick = [bid |-> TradeOpenPrice, ask |-> TradeOpenPrice + 2]
    /\ autotrade_config \in TradeSettings
    /\ sl_requests = {}
    /\ next_ticket = 1
    /\ peak_seen = <<>>
    /\ positions = <<>>
    /\ NoAccount /\ NoTracker /\ NoCall /\ NoRest

\* no manage_trade call is under way
NoManageWaiting == DOMAIN call = {}

\* the requests recorded are those of the call under way or of the last call,
\* until the broker's side moves again
RequestsKept == IF NoManageWaiting THEN {} ELSE sl_requests

TickArrivesIn(ticks) ==
    /\ \E t \in ticks : t # last_tick /\ last_tick' = t
    /\ sl_requests' = RequestsKept
    /\ result' = None
    /\ UNCHANGED <<restVars, positions, accountVars, trackerVars, call, broker, autotrade_config,
                   next_ticket, peak_seen>>

\* the ticks of the cycle: a fall of 1 %, the entry price, and two rises
TradeTicks == {[bid |-> b, ask |-> b + 2] : b \in {9900, 10000, 10040, 10100}}

\* the ATR the indicator gives in the cycle
TradeATRs == {20}

TickArrives == TickArrivesIn(TradeTicks)

\* a position is opened at the entry price, with or without a stop-loss; the
\* broker holds at most capacity positions and reports price_open
OpenTradeOf(tickets, types, open_prices, capacity) ==
    /\ Len(broker) < capacity
    /\ next_ticket \in tickets
    /\ last_tick.bid = TradeOpenPrice
    /\ \E type \in types, price_open \in open_prices : \E sl \in InitialStops(type) :
          broker' = Append(broker, [ticket |-> next_ticket, type |-> type, sl |-> sl,
                                    price_open |-> price_open])
    /\ next_ticket' = next_ticket + 1
    /\ sl_requests' = RequestsKept
    /\ result' = None
    /\ UNCHANGED <<restVars, positions, accountVars, trackerVars, call, last_tick,
                   autotrade_config, peak_seen>>

OpenTrade == OpenTradeOf(TradeTickets, Types, {TradeOpenPrice}, 1)

\* a position is closed on the broker's side
CloseTrade ==
    /\ \E i \in 1..Len(broker) : broker' = RemoveAt(broker, i)
    /\ sl_requests' = RequestsKept
    /\ result' = None
    /\ UNCHANGED <<restVars, positions, accountVars, trackerVars, call, last_tick,
                   autotrade_config, next_ticket, peak_seen>>

\* get_positions: save_positions(mt5.positions_get())
GetPositions ==
    LET raw == return_positions(broker, last_tick)
    IN  /\ NoManageWaiting
        /\ positions' = save_positions(raw, positions, autotrade_config)
        /\ peak_seen' = PeakSeenAfter(peak_seen, positions, raw)
        /\ sl_requests' = {}
        /\ result' = None
        /\ UNCHANGED <<restVars, accountVars, trackerVars, call, broker, last_tick,
                       autotrade_config, next_ticket>>

\* how a manage_trade call ended: what it returned ("True", "False") or that
\* it raised, the ATR it was given and how many positions it evaluated
Ended(outcome, atr, evaluated) ==
    Some([outcome |-> outcome, atr |-> atr, evaluated |-> evaluated])

\* a stop-loss request as sent, with the stop-loss the position has at the
\* broker at that moment; otherwise stands for a ticket the broker no longer
\* holds
Sent(request, broker_positions, otherwise) ==
    [request |-> request,
     current_sl |->
         IF \E i \in 1..Len(broker_positions) :
               broker_positions[i].ticket = request.position
           THEN broker_positions[CHOOSE i \in 1..Len(broker_positions) :
                    broker_positions[i].ticket = request.position].sl
           ELSE otherwise]

\* mt5.order_send of TRADE_ACTION_SLTP requests the broker accepts: the
\* stop-loss of each position named is replaced
order_send(broker_positions, accepted) ==
    [i \in 1..Len(broker_positions) |->
        IF \E r \in accepted : r.position = broker_positions[i].ticket
          THEN [broker_positions[i] EXCEPT !.sl =
                  (CHOOSE r \in accepted : r.position = broker_positions[i].ticket).sl]
          ELSE broker_positions[i]]

\* the frame of a manage_trade call that has not returned: where it is, the
\* tick and the ATR read at its start, the cached positions line 1885 loaded,
\* the symbol's positions line 1891 read and the place in them of the
\* position the loop is at
ManageCall(pc, tick, atr, full_cached_positions, managed, next) ==
    [function |-> "manage_trade", pc |-> pc, tick |-> tick, atr |-> atr,
     full_cached_positions |-> full_cached_positions, managed |-> managed,
     next |-> next]

\* manage_trade lines 1885-1898, with the tick and the ATR read at its start:
\* load_cached_positions returns the positions file, return_positions reads
\* the broker now; without a position of the symbol the call returns True,
\* otherwise the loop starts at the first one
ManageTradeFrom(atr, tick) ==
    LET raw == return_positions(broker, last_tick)
        same_symbol(pos) == pos.symbol = TradeSymbol
        managed == SelectSeq(raw, same_symbol)
    IN  /\ IF managed = <<>>
             THEN /\ call' = <<>>
                  /\ result' = Ended("True", atr, 0)
             ELSE /\ call' = ManageCall("staircase", tick, atr, positions, managed, 1)
                  /\ result' = None
        /\ sl_requests' = {}
        /\ UNCHANGED <<positions, peak_seen, broker>>

\* manage_trade(symbol) with an ATR of atrs, None when the indicator gives no
\* value (lines 1868-1875).  When the positions file is older than 10 s
\* (stale), load_cached_positions refreshes it through get_positions() and
\* sleeps (total_positions.py 40-45): the call waits there with its tick and
\* its ATR while the broker goes on
ManageTradeWith(atrs) ==
    /\ NoManageWaiting
    /\ \E atr \in atrs, stale \in BOOLEAN :
          IF atr = None
            THEN /\ ~stale
                 /\ UNCHANGED <<positions, peak_seen, broker, call>>
                 /\ sl_requests' = {}
                 /\ result' = Ended("False", atr, 0)
          ELSE IF stale
            THEN LET raw == return_positions(broker, last_tick)
                 IN  /\ positions' = save_positions(raw, positions, autotrade_config)
                     /\ peak_seen' = PeakSeenAfter(peak_seen, positions, raw)
                     /\ call' = ManageCall("load", last_tick, atr, <<>>, <<>>, 0)
                     /\ sl_requests' = {}
                     /\ result' = None
                     /\ broker' = broker
          ELSE ManageTradeFrom(atr, last_tick)
    /\ UNCHANGED <<restVars, accountVars, trackerVars, last_tick, autotrade_config,
                   next_ticket>>

\* the sleep of line 1885's load is over: load_cached_positions reads the file
\* get_positions wrote and manage_trade goes on
ManageTradeResumes ==
    /\ ~NoManageWaiting
    /\ call.pc = "load"
    /\ ManageTradeFrom(call.atr, call.tick)
    /\ UNCHANGED <<restVars, accountVars, trackerVars, last_tick, autotrade_config,
                   next_ticket>>

\* sl_trailing_staircase loads the cache again for every position
\* (sl_managers.py 137): when the positions file is older than 10 s by then,
\* load_cached_positions rewrites it through get_positions() and sleeps, in
\* the middle of the loop
ManageTradeReloads ==
    LET raw == return_positions(broker, last_tick)
    IN  /\ ~NoManageWaiting
        /\ call.pc = "staircase"
        /\ positions' = save_positions(raw, positions, autotrade_config)
        /\ peak_seen' = PeakSeenAfter(peak_seen, positions, raw)
        /\ call' = [call EXCEPT !.pc = "sleep"]
        /\ UNCHANGED <<restVars, accountVars, trackerVars, broker, last_tick,
                       autotrade_config, sl_requests, next_ticket, result>>

\* one pass of the loop (lines 1900-2001): sl_trailing_staircase evaluates the
\* position on the positions file as it is now, a ZeroDivisionError of its
\* line 156 ends the call before the save, the request is sent when the
\* recommendation is better and the broker accepts it or not; after the last
\* position the cached positions of line 1885 are merged with the positions
\* of line 1891 and saved (lines 2003-2018)
ManageTradeEvaluates ==
    /\ ~NoManageWaiting
    /\ call.pc \in {"staircase", "sleep"}
    /\ LET pos == call.managed[call.next]
           request == StopLossRequest(TradeSymbol, pos, call.tick, TheValue(call.atr),
                                      positions, autotrade_config)
           requests == IF request = None THEN {} ELSE {TheValue(request)}
           final_positions == FinalPositions(call.full_cached_positions, call.managed)
       IN  IF staircase_raises(pos)
             THEN /\ result' = Ended("raised", call.atr, call.next - 1)
                  /\ call' = <<>>
                  /\ UNCHANGED <<positions, peak_seen, broker, sl_requests>>
             ELSE /\ \E accepted \in SUBSET requests : broker' = order_send(broker, accepted)
                  /\ sl_requests' = sl_requests \cup {Sent(r, broker, Get(pos, "sl", 0)) : r \in requests}
                  /\ IF call.next < Len(call.managed)
                       THEN /\ call' = [call EXCEPT !.pc = "staircase", !.next = @ + 1]
                            /\ result' = None
                            /\ UNCHANGED <<positions, peak_seen>>
                       ELSE /\ positions' = save_positions(final_positions, positions,
                                                           autotrade_config)
                            /\ peak_seen' = PeakSeenAfter(peak_seen, positions,
                                                          final_positions)
                            /\ call' = <<>>
                            /\ result' = Ended("True", call.atr, Len(call.managed))
    /\ UNCHANGED <<restVars, accountVars, trackerVars, last_tick, autotrade_config,
                   next_ticket>>

\* the indicator's ATR is always a positive value here
ManageTrade == ManageTradeWith({Some(atr) : atr \in TradeATRs})

\* symbol_config.get('contract_size', 1) of a symbol configured without one
ContractSize == 1

\* abort_trade lines 866-887: the loss of the position, as a fraction of the
\* amount invested, is beyond abort_loss_threshold_decimal
abort_loss_exceeded(pos, settings) ==
    LET invested_amount == pos.volume * pos.price_open * ContractSize
        abort_loss_threshold ==
            get_autotrade_param(settings, pos.symbol, "abort_loss_threshold_decimal",
                                FracNeg(Frac(15, 10000)))
    IN  /\ invested_amount > 0
        /\ FracLess(Frac(pos.profit, invested_amount), abort_loss_threshold)

\* abort_trade(symbol): get_positions() rewrites the positions file; every
\* position of the file whose loss is beyond the threshold is closed with a
\* deal, and when the broker refuses the deal in both filling modes the
\* stop-loss is set 10 beyond the price (bid - 10 for a BUY, ask + 10 for a
\* SELL), whatever stop-loss the position has
AbortTrade ==
    LET raw == return_positions(broker, last_tick)
        saved == save_positions(raw, positions, autotrade_config)
        aborting == {i \in 1..Len(saved) :
                        /\ saved[i].symbol = TradeSymbol
                        /\ abort_loss_exceeded(saved[i], autotrade_config)}
        forced_sl(type) == IF type = "BUY" THEN last_tick.bid - 10 ELSE last_tick.ask + 10
        sl_request(i) == [position |-> saved[i].ticket, symbol |-> TradeSymbol,
                          type |-> saved[i].type, sl |-> forced_sl(saved[i].type),
                          comment |-> "Abort SL fallback"]
        without(closed) == SelectSeq(broker,
                               LAMBDA b : \A i \in closed : saved[i].ticket # b.ticket)
    IN  /\ NoManageWaiting
        /\ positions' = saved
        /\ peak_seen' = PeakSeenAfter(peak_seen, positions, raw)
        /\ \E closed \in SUBSET aborting : \E accepted \in SUBSET (aborting \ closed) :
              /\ broker' = order_send(without(closed), {sl_request(i) : i \in accepted})
              /\ sl_requests' = {Sent(sl_request(i), broker, saved[i].sl) :
                                    i \in aborting \ closed}
        /\ result' = None
        /\ UNCHANGED <<restVars, accountVars, trackerVars, call, last_tick,
                       autotrade_config, next_ticket>>

\* simple_manage_trade lines 1198-1283 for one position of mt5.positions_get:
\* a position without stop-loss gets the volatility-based one, another one
\* the break-even or trailing stop-loss when that is better; None when
\* nothing is sent
simple_manage_trade_request(symbol, pos, tick, atr, settings) ==
    LET open_price == pos.price_open
        current_sl == pos.sl
        price_now == PriceNow(pos, tick)
        multiplier == get_autotrade_param(settings, symbol, "atr_multiplier", Frac(2, 1))
        break_even_offset ==
            get_autotrade_param(settings, symbol, "break_even_offset_decimal", Frac(1, 10))
        volatility_cap ==
            get_autotrade_param(settings, symbol, "default_volatility_decimal",
                                Frac(3, 100))
        req(sl, comment) == Some([position |-> pos.ticket, symbol |-> symbol,
                                  type |-> pos.type, sl |-> sl, comment |-> comment])
    IN  IF current_sl = 0
          THEN req(IF pos.type = "BUY" THEN open_price - Scaled(open_price, volatility_cap)
                   ELSE open_price + Scaled(open_price, volatility_cap),
                   "Initial Volatility SL")
        ELSE IF pos.type = "BUY"
          THEN LET new_sl == Max2(current_sl, open_price + Scaled(atr, break_even_offset))
                   trail_sl == price_now - Scaled(atr, multiplier)
                   recommended_sl == Max2(new_sl, trail_sl)
               IN  IF price_now >= open_price + atr /\ recommended_sl > current_sl
                     THEN req(recommended_sl, "Simple Trailing SL") ELSE None
        ELSE LET new_sl == Min2(current_sl, open_price - Scaled(atr, break_even_offset))
                 trail_sl == price_now + Scaled(atr, multiplier)
                 recommended_sl == Min2(new_sl, trail_sl)
             IN  IF price_now <= open_price - atr /\ recommended_sl < current_sl
                   THEN req(recommended_sl, "Simple Trailing SL") ELSE None

\* simple_manage_trade(symbol): the manager trade.py offers beside
\* manage_trade; it reads the broker's positions and writes no file
SimpleManageTrade ==
    /\ NoManageWaiting
    /\ \E atr \in TradeATRs :
          LET managed == {i \in 1..Len(broker) :
                             simple_manage_trade_request(TradeSymbol, broker[i], last_tick,
                                                         atr, autotrade_config) # None}
              request(i) == TheValue(simple_manage_trade_request(
                                TradeSymbol, broker[i], last_tick, atr, autotrade_config))
          IN  /\ \E accepted \in SUBSET managed :
                    broker' = order_send(broker, {request(i) : i \in accepted})
              /\ sl_requests' = {Sent(request(i), broker, broker[i].sl) : i \in managed}
    /\ result' = None
    /\ UNCHANGED <<restVars, positions, accountVars, trackerVars, call, last_tick,
                   autotrade_config, next_ticket, peak_seen>>

NextTrade ==
    TickArrives \/ OpenTrade \/ CloseTrade \/ GetPositions \/ ManageTrade
        \/ ManageTradeResumes \/ ManageTradeReloads \/ ManageTradeEvaluates
        \/ AbortTrade \/ SimpleManageTrade

SpecTrade == InitTrade /\ [][NextTrade]_vars

(***************************************************************************)
(* The same cycle with two BUY tickets, an indicator that may give no ATR  *)
(* or an ATR of 0, and a broker that may report a price_open of 0.         *)
(***************************************************************************)
PairTickets == {1, 2}

PairTicks == {[bid |-> b, ask |-> b + 2] : b \in {10000, 10100}}

PairATRs == {None, Some(0), Some(20)}

PairTick == TickArrivesIn(PairTicks)

PairOpen == OpenTradeOf(PairTickets, {"BUY"}, {0, TradeOpenPrice}, 2)

PairManage == ManageTradeWith(PairATRs)

InitPair ==
    /\ broker = <<>>
    /\ last_tick = [bid |-> TradeOpenPrice, ask |-> TradeOpenPrice + 2]
    /\ autotrade_config = [defaults |-> [min_ticks_to_hold |-> 2]]
    /\ sl_requests = {}
    /\ next_ticket = 1
    /\ peak_seen = <<>>
    /\ positions = <<>>
    /\ NoAccount /\ NoTracker /\ NoCall /\ NoRest

\* on these ticks no BUY is at a loss: abort_trade is its get_positions()
NextPair ==
    PairTick \/ PairOpen \/ CloseTrade \/ GetPositions \/ PairManage
        \/ ManageTradeResumes \/ ManageTradeReloads \/ ManageTradeEvaluates

SpecPair == InitPair /\ [][NextPair]_vars

(***************************************************************************)
(* load_cached_positions (total_positions.py 24-61) step by step: the test *)
(* for the file, the test of its age, the refresh through get_positions    *)
(* followed by the call of itself, and the read attempts.  call is the     *)
(* frame of the running call, result how the outermost call ended.         *)
(***************************************************************************)
\* the default of the retries parameter; no caller passes another value
Retries == 3

\* frames the interpreter allows before it raises RecursionError (1000 in
\* CPython, kept small here)
RecursionLimit == 6

\* positions.json: absent, or present with an age (fresh: at most 10 seconds)
\* and a text: a JSON object with the "positions" list, a JSON object without
\* that key, a JSON array or string that does not hold "positions", one that
\* does, a JSON number, or text that is not JSON
FileTexts == {"positions", "no_key", "array", "array_positions", "scalar", "not_json"}

\* the texts json.load turns into a value that is no dict
NoObjectTexts == {"array", "array_positions", "scalar"}

FileStates ==
    {[exists |-> FALSE, fresh |-> FALSE, text |-> "not_json"]}
        \cup {[exists |-> TRUE, fresh |-> f, text |-> t] : f \in BOOLEAN, t \in FileTexts}

\* what becomes of the write in save_positions (positions.py 229-236): the
\* file is written, the open fails and the file stays as it was, or the write
\* breaks off after open() has emptied the file; the exception is logged
SaveOutcomes == {"written", "failed", "truncated"}

save_positions_file(file, outcome) ==
    IF outcome = "written" THEN [exists |-> TRUE, fresh |-> TRUE, text |-> "positions"]
    ELSE IF outcome = "truncated" THEN [exists |-> TRUE, fresh |-> TRUE, text |-> "not_json"]
    ELSE file

Idle == [pc |-> "idle"]

Frame(pc, depth, attempt, refreshes, reads) ==
    [pc |-> pc, depth |-> depth, attempt |-> attempt, refreshes |-> refreshes,
     reads |-> reads]

InitCache ==
    /\ cache_file \in FileStates
    /\ NoListener /\ clock = 0
    /\ call = Idle
    /\ result = None
    /\ positions = <<>>
    /\ NoAccount /\ NoTracker /\ NoTrade

\* the file is removed, grows old or is overwritten by another process, between
\* two calls or while one runs
FileChanges ==
    /\ \E file \in FileStates : file # cache_file /\ cache_file' = file
    /\ result' = None
    /\ UNCHANGED <<positions, accountVars, trackerVars, call, tradeVars, listenerVars, clock>>

\* a caller enters load_cached_positions()
LoadCachedPositions ==
    /\ call = Idle
    /\ call' = Frame("test", 1, 0, 0, 0)
    /\ result' = None
    /\ UNCHANGED <<positions, accountVars, trackerVars, tradeVars, restVars>>

\* lines 30 and 40: a missing or outdated file leads to the refresh, any other
\* file to the read attempts
TestFile ==
    /\ call.pc = "test"
    /\ call' = IF ~cache_file.exists \/ ~cache_file.fresh
                 THEN [call EXCEPT !.pc = "refresh"]
                 ELSE [call EXCEPT !.pc = "read", !.attempt = 0]
    /\ UNCHANGED <<positions, accountVars, trackerVars, result, tradeVars, restVars>>

\* lines 32 and 42: get_positions().  save_positions reads the file it finds
\* (positions.py 206-213): a text that is not JSON is passed over, a JSON value
\* that is no object makes existing_data.get raise AttributeError, which ends
\* the call before anything is written; otherwise the file is written
Refresh ==
    /\ call.pc = "refresh"
    /\ IF cache_file.exists /\ cache_file.text \in NoObjectTexts
         THEN /\ call' = Idle
              /\ result' = Some([outcome |-> "AttributeError",
                                 refreshes |-> call.refreshes + 1, reads |-> call.reads])
              /\ cache_file' = cache_file
         ELSE /\ \E outcome \in SaveOutcomes :
                    cache_file' = save_positions_file(cache_file, outcome)
              /\ call' = [call EXCEPT !.pc = "sleep", !.refreshes = @ + 1]
              /\ result' = result
    /\ UNCHANGED <<positions, accountVars, trackerVars, tradeVars, listenerVars, clock>>

\* lines 33-35 and 43-45: after time.sleep(delay) the function calls itself; at
\* the frame limit the call raises RecursionError into every frame
SleepThenRecurse ==
    /\ call.pc = "sleep"
    /\ IF call.depth < RecursionLimit
         THEN /\ call' = [call EXCEPT !.pc = "test", !.depth = @ + 1]
              /\ result' = result
         ELSE /\ call' = Idle
              /\ result' = Some([outcome |-> "RecursionError",
                                 refreshes |-> call.refreshes, reads |-> call.reads])
    /\ UNCHANGED <<positions, accountVars, trackerVars, tradeVars, restVars>>

\* lines 47-58: one read attempt.  The list is returned; a file that is gone
\* or is not JSON, an object without the key and an array or string that does
\* not hold "positions" count the attempt; on a number the test 'positions' in
\* positions raises TypeError (line 51), and on an array or string that holds
\* "positions" the subscript positions['positions'] does (line 53)
ReadAttempt ==
    /\ call.pc = "read"
    /\ call.attempt < Retries
    /\ IF cache_file.exists /\ cache_file.text = "positions"
         THEN /\ call' = Idle
              /\ result' = Some([outcome |-> "positions",
                                 refreshes |-> call.refreshes, reads |-> call.reads + 1])
         ELSE IF cache_file.exists /\ cache_file.text \in {"scalar", "array_positions"}
           THEN /\ call' = Idle
                /\ result' = Some([outcome |-> "TypeError",
                                   refreshes |-> call.refreshes, reads |-> call.reads + 1])
         ELSE /\ call' = [call EXCEPT !.attempt = @ + 1, !.reads = @ + 1]
              /\ result' = result
    /\ UNCHANGED <<positions, accountVars, trackerVars, tradeVars, restVars>>

\* lines 60-61: the attempts are used up, [] is returned
GiveUp ==
    /\ call.pc = "read"
    /\ call.attempt >= Retries
    /\ call' = Idle
    /\ result' = Some([outcome |-> "empty", refreshes |-> call.refreshes,
                       reads |-> call.reads])
    /\ UNCHANGED <<positions, accountVars, trackerVars, tradeVars, restVars>>

NextCache ==
    \/ FileChanges
    \/ LoadCachedPositions
    \/ TestFile
    \/ Refresh
    \/ SleepThenRecurse
    \/ ReadAttempt
    \/ GiveUp

SpecCache == InitCache /\ [][NextCache]_vars

(***************************************************************************)
(* listen_to_ticks (tick_listener.py 67-95) step by step: the reads of one *)
(* polling iteration, the delivery to on_tick, the sleep.  call is the     *)
(* frame of the loop; before and seen keep what the iteration started from *)
(* and what it read, invoked and running count the on_tick calls made in   *)
(* the iteration and those that have not ended.                            *)
(***************************************************************************)
ListenSymbols == <<"EURUSD", "BTCUSD">>

\* two ticks that differ in the ask alone
ListenerQuotes == {[bid |-> 10000, ask |-> 10002], [bid |-> 10000, ask |-> 10003]}

\* mutant of TickChanged: the ask is not compared
TickChangedBidOnly(recorded, symbol, tick) ==
    IF symbol \notin DOMAIN recorded THEN TRUE
    ELSE recorded[symbol][1] # tick.bid

\* lines 73 and 78: last_ticks.get(symbol, (None, None)) against the tick
TickChanged(recorded, symbol, tick) ==
    IF symbol \notin DOMAIN recorded THEN TRUE
    ELSE recorded[symbol][1] # tick.bid \/ recorded[symbol][2] # tick.ask

\* lines 82-87: the dictionary handed to on_tick
TickInfo(symbol, tick) ==
    [symbol |-> symbol, bid |-> tick.bid, ask |-> tick.ask, spread |-> tick.ask - tick.bid]

Iteration(recorded, running) ==
    [pc |-> "poll", index |-> 1, tick_data |-> <<>>, before |-> recorded,
     seen |-> EmptyDict, invoked |-> 0, running |-> running]

InitListener ==
    /\ last_ticks = EmptyDict
    /\ quotes \in [{ListenSymbols[i] : i \in 1..Len(ListenSymbols)} ->
                        {None} \cup {Some(q) : q \in ListenerQuotes}]
    /\ call = Iteration(EmptyDict, 0)
    /\ result = None
    /\ cache_file = <<>> /\ clock = 0
    /\ positions = <<>>
    /\ NoAccount /\ NoTracker /\ NoTrade

\* the market moves, whatever the listener is doing
MarketMoves ==
    /\ \E symbol \in DOMAIN quotes, tick \in {None} \cup {Some(q) : q \in ListenerQuotes} :
          /\ quotes[symbol] # tick
          /\ quotes' = [quotes EXCEPT ![symbol] = tick]
    /\ UNCHANGED <<positions, accountVars, trackerVars, callVars, tradeVars, cache_file,
                   last_ticks, clock>>

\* lines 71-88: the read of one symbol
PollSymbol ==
    /\ call.pc = "poll"
    /\ call.index <= Len(ListenSymbols)
    /\ LET symbol == ListenSymbols[call.index]
           tick == quotes[symbol]
           changed == tick # None /\ TickChanged(last_ticks, symbol, TheValue(tick))
       IN  /\ last_ticks' = IF changed
                              THEN Put(last_ticks, symbol,
                                       <<TheValue(tick).bid, TheValue(tick).ask>>)
                              ELSE last_ticks
           /\ call' = [call EXCEPT
                          !.index = @ + 1,
                          !.seen = Put(@, symbol, tick),
                          !.tick_data = IF changed
                                          THEN Append(@, TickInfo(symbol, TheValue(tick)))
                                          ELSE @]
    /\ UNCHANGED <<positions, accountVars, trackerVars, result, tradeVars, cache_file,
                   quotes, clock>>

\* lines 92-93: on_tick is called when a tick was detected
Dispatch ==
    /\ call.pc = "poll"
    /\ call.index > Len(ListenSymbols)
    /\ call' = IF call.tick_data # <<>>
                 THEN [call EXCEPT !.pc = "on_tick", !.invoked = @ + 1, !.running = @ + 1]
                 ELSE [call EXCEPT !.pc = "sleep"]
    /\ UNCHANGED <<positions, accountVars, trackerVars, result, tradeVars, restVars>>

\* algoapp.on_tick has run through the position management and returns
OnTickReturns ==
    /\ call.pc = "on_tick"
    /\ call' = [call EXCEPT !.pc = "sleep", !.running = @ - 1]
    /\ UNCHANGED <<positions, accountVars, trackerVars, result, tradeVars, restVars>>

\* an exception leaves on_tick; listen_to_ticks does not catch it and ends
OnTickRaises ==
    /\ call.pc = "on_tick"
    /\ call' = [call EXCEPT !.pc = "stopped", !.running = @ - 1]
    /\ UNCHANGED <<positions, accountVars, trackerVars, result, tradeVars, restVars>>

\* line 95 and the next turn of the while loop
SleepThenPoll ==
    /\ call.pc = "sleep"
    /\ call' = Iteration(last_ticks, call.running)
    /\ UNCHANGED <<positions, accountVars, trackerVars, result, tradeVars, restVars>>

NextListener ==
    \/ MarketMoves
    \/ PollSymbol
    \/ Dispatch
    \/ OnTickReturns
    \/ OnTickRaises
    \/ SleepThenPoll

SpecListener == InitListener /\ [][NextListener]_vars

(***************************************************************************)
(* The liquidation cycle (cycle_limit.py) and the summary open_trade reads *)
(* to register it (trade.py 721-727).                                      *)
(***************************************************************************)
CycleTickets == {1, 2}

\* the clock at the start, its step and its end, in seconds
CycleStart == 1000

ClockStep == 450

MaxClock == 2350

\* the default of liquidation_cycle_seconds
DefaultCooldown == 900

\* no settings file, or a cooldown of one clock step
CycleSettings == {EmptyDict, [defaults |-> [liquidation_cycle_seconds |-> ClockStep]]}

\* the signals open_trade tells apart, and what comes back from open_buy /
\* open_sell: a result with success, one without, or nothing
Consensus == {"BUY", "SELL", "NONE"}

OrderOutcomes == {"filled", "refused", "nothing"}

LastCycleTime(file, symbol) ==
    Get(Get(Get(file, symbol, EmptyDict), "CYCLE", EmptyDict), "LAST_CYCLE_TIME", 0)

\* mutant of check_cycle_clearance: the cooldown is cleared one step early
check_cycle_clearance_early(file, symbol, time, settings) ==
    LET last_cycle_time == LastCycleTime(file, symbol)
        liquidation_cooldown ==
            get_autotrade_param(settings, symbol, "liquidation_cycle_seconds", DefaultCooldown)
    IN  IF last_cycle_time = 0 THEN TRUE
        ELSE time - last_cycle_time >= liquidation_cooldown - ClockStep

\* check_cycle_clearance: no cycle recorded, or the cooldown has elapsed
check_cycle_clearance(file, symbol, time, settings) ==
    LET last_cycle_time == LastCycleTime(file, symbol)
        liquidation_cooldown ==
            get_autotrade_param(settings, symbol, "liquidation_cycle_seconds", DefaultCooldown)
    IN  IF last_cycle_time = 0 THEN TRUE
        ELSE time - last_cycle_time >= liquidation_cooldown

\* the test of register_cycle (lines 31-32) and of open_trade (lines 725-726)
NetIsFlat(symbol_data) ==
    LET net == Get(symbol_data, "NET", EmptyDict)
    IN  Get(net, "SIZE_SUM", 0) = 0 /\ Get(net, "POSITION_COUNT", 0) = 0

\* register_cycle on the loaded file: LAST_CYCLE_TIME is set when the NET
\* record of the file is flat or missing; the dict handed to save_total_positions
register_cycle(file, symbol, time) ==
    LET symbol_data == Get(file, symbol, EmptyDict)
    IN  IF NetIsFlat(symbol_data)
          THEN Put(file, symbol,
                   Put(symbol_data, "CYCLE",
                       Put(Get(symbol_data, "CYCLE", EmptyDict), "LAST_CYCLE_TIME", time)))
          ELSE file

\* trade.py 724-726: the symbols of the returned summary whose NET has
\* SIZE_SUM 0 and POSITION_COUNT 0
FlatSymbols(total_positions) ==
    {symb \in DOMAIN total_positions : NetIsFlat(total_positions[symb])}

\* trade.py 724-727: register_cycle for every such symbol
RECURSIVE RegisterFlatSymbols(_, _, _, _)
RegisterFlatSymbols(file, total_positions, todo, time) ==
    IF todo = {} THEN file
    ELSE LET symb == CHOOSE x \in todo : TRUE
             registered ==
                 IF symb \in FlatSymbols(total_positions)
                   THEN register_cycle(file, symb, time) ELSE file
         IN  RegisterFlatSymbols(registered, total_positions, todo \ {symb}, time)

\* what get_total_positions returns: {} without positions (lines 212-214),
\* else the snapshot, in which a symbol new to the record carries the fields
\* lines 228-238 add to its sides
TotalPositionsOf(historical, ps) ==
    IF ps = <<>> THEN EmptyDict ELSE ReturnedSummary(historical, ps)

CycleQuote == [price_current |-> 12700, profit |-> 100]

\* the clock of time.time() moves on by a step
ClockTicks ==
    /\ clock < MaxClock
    /\ clock' = clock + ClockStep
    /\ result' = None
    /\ UNCHANGED <<positions, accountVars, trackerVars, call, tradeVars, cache_file,
                   listenerVars>>

HasPositions(ps, symbol) == \E i \in 1..Len(ps) : ps[i].symbol = symbol

(***************************************************************************)
(* The settings file behind get_autotrade_param: ConfigWatcher             *)
(* (utils/config_watcher.py) reloads config/autotrade_config_settings.json *)
(* when its mtime differs from the last one loaded.  call holds the file   *)
(* and the watcher's last_mtime, autotrade_config the watcher's config.    *)
(***************************************************************************)
ConfigSymbols == {"EURUSD", "BTCUSD"}

\* what the file can hold: JSON objects with a defaults section, overrides
\* of one symbol, or both; numbers are the values of the thresholds
ConfigObjects ==
    {EmptyDict,
     [defaults |-> [min_ticks_to_hold |-> 2]],
     [symbol_overrides |->
         [EURUSD |-> [min_ticks_to_hold |-> 3, atr_multiplier |-> Frac(3, 1)]]],
     [defaults |-> [min_ticks_to_hold |-> 2, atr_multiplier |-> Frac(1, 2)],
      symbol_overrides |-> [EURUSD |-> [min_ticks_to_hold |-> 3]]]}

\* a file whose text is not JSON (an empty file among them) has parses FALSE
ConfigTexts ==
    {[parses |-> FALSE, data |-> EmptyDict]}
        \cup {[parses |-> TRUE, data |-> d] : d \in ConfigObjects}

MissingFile == [state |-> "missing", parses |-> FALSE, data |-> EmptyDict, mtime |-> 0]

\* the keys sl_trailing_staircase reads, with the defaults it passes
StaircaseDefaults ==
    [max_loss_decimal |-> Frac(5, 1000),
     initial_sl_buffer_atr |-> Frac(15, 10),
     min_ticks_to_hold |-> 9,
     trailing_profit_threshold_decimal |-> Frac(1, 1000),
     atr_multiplier |-> Frac(2, 1),
     break_even_offset_decimal |-> Frac(1, 10)]

\* ConfigWatcher.load_if_changed: getmtime raises on a missing file, open on
\* an unreadable one, json.load on a text that is not JSON; every exception
\* empties config and leaves last_mtime as it was
load_if_changed(file, config, last_mtime) ==
    IF file.state = "missing" THEN [config |-> EmptyDict, last_mtime |-> last_mtime]
    ELSE IF file.mtime = last_mtime THEN [config |-> config, last_mtime |-> last_mtime]
    ELSE IF file.state = "unreadable" \/ ~file.parses
      THEN [config |-> EmptyDict, last_mtime |-> last_mtime]
    ELSE [config |-> file.data, last_mtime |-> file.mtime]

InitConfig ==
    /\ call = [file |-> MissingFile, last_mtime |-> 0]
    /\ autotrade_config = EmptyDict
    /\ clock = CycleStart
    /\ result = None
    /\ positions = <<>>
    /\ broker = <<>> /\ last_tick = <<>> /\ sl_requests = {} /\ next_ticket = 1
    /\ peak_seen = <<>>
    /\ cache_file = <<>> /\ NoListener
    /\ NoAccount /\ NoTracker

\* the file is written, with the clock as its mtime
ConfigWritten ==
    /\ \E text \in ConfigTexts :
          call' = [call EXCEPT !.file = [state |-> "present", parses |-> text.parses,
                                         data |-> text.data, mtime |-> clock]]
    /\ result' = None
    /\ UNCHANGED <<positions, accountVars, trackerVars, tradeVars, restVars>>

ConfigRemoved ==
    /\ call.file.state # "missing"
    /\ call' = [call EXCEPT !.file = MissingFile]
    /\ result' = None
    /\ UNCHANGED <<positions, accountVars, trackerVars, tradeVars, restVars>>

\* the permissions of the file change: its mtime stays
ConfigPermissions ==
    /\ call.file.state # "missing"
    /\ call' = [call EXCEPT !.file.state =
                    IF call.file.state = "present" THEN "unreadable" ELSE "present"]
    /\ result' = None
    /\ UNCHANGED <<positions, accountVars, trackerVars, tradeVars, restVars>>

\* one call get_autotrade_param(symbol, key, default) of the staircase
GetAutotradeParam ==
    /\ \E symbol \in ConfigSymbols, key \in DOMAIN StaircaseDefaults :
          LET watcher == load_if_changed(call.file, autotrade_config, call.last_mtime)
          IN  /\ autotrade_config' = watcher.config
              /\ call' = [call EXCEPT !.last_mtime = watcher.last_mtime]
              /\ result' = Some([function |-> "get_autotrade_param", symbol |-> symbol,
                                  key |-> key, default |-> StaircaseDefaults[key],
                                  returned |-> get_autotrade_param(watcher.config, symbol,
                                                   key, StaircaseDefaults[key])])
    /\ UNCHANGED <<positions, accountVars, trackerVars, broker, last_tick, sl_requests,
                   next_ticket, peak_seen, restVars>>

\* sl_trailing_staircase, lines 144-152: the config dict of a symbol
BuildStaircaseConfig ==
    /\ \E symbol \in ConfigSymbols :
          LET watcher == load_if_changed(call.file, autotrade_config, call.last_mtime)
          IN  /\ autotrade_config' = watcher.config
              /\ call' = [call EXCEPT !.last_mtime = watcher.last_mtime]
              /\ result' = Some([function |-> "sl_trailing_staircase", symbol |-> symbol,
                                  config |-> StaircaseConfig(watcher.config, symbol)])
    /\ UNCHANGED <<positions, accountVars, trackerVars, broker, last_tick, sl_requests,
                   next_ticket, peak_seen, restVars>>

NextConfig ==
    \/ ClockTicks \/ ConfigWritten \/ ConfigRemoved \/ ConfigPermissions
    \/ GetAutotradeParam \/ BuildStaircaseConfig

SpecConfig == InitConfig /\ [][NextConfig]_vars

(***************************************************************************)
(* CustomCandleAggregator (custom_candle_aggregator.py) in tick mode.      *)
(* call is the aggregator: its fields, and for the claims the numbers of   *)
(* the ticks the candle in progress was built from and, per tick, the      *)
(* number of finished candles built from it.  result is what the last      *)
(* on_new_tick returned.                                                   *)
(***************************************************************************)
CandleIntervals == {1, 2, 3}

CandlePrices == {99, 100, 101}

MaxTicks == 6

\* _start_candle, lines 105-112 (candle_end_ts is for time mode)
start_candle(aggregator, ts, price) ==
    [aggregator EXCEPT !.candle_open_time = Some(ts), !.open_price = Some(price),
                       !.high_price = Some(price), !.low_price = Some(price),
                       !.close_price = Some(price), !.tick_count = 1]

\* the candle dict of _close_and_start_new, lines 122-130
finished_candle(aggregator, ts) ==
    [open_time |-> TheValue(aggregator.candle_open_time),
     open |-> TheValue(aggregator.open_price),
     high |-> TheValue(aggregator.high_price),
     low |-> TheValue(aggregator.low_price),
     close |-> TheValue(aggregator.close_price),
     close_time |-> ts,
     tick_count |-> aggregator.tick_count]

\* lines 85-90: high, low, close and the count after a tick
updated(aggregator, price) ==
    [aggregator EXCEPT
        !.high_price = IF price > TheValue(@) THEN Some(price) ELSE @,
        !.low_price = IF price < TheValue(@) THEN Some(price) ELSE @,
        !.close_price = Some(price),
        !.tick_count = @ + 1]

\* on_new_tick in tick mode: the aggregator after the tick and the value returned
on_new_tick(aggregator, ts, price) ==
    IF aggregator.open_price = None
      THEN [aggregator |-> start_candle(aggregator, ts, price), returned |-> None]
    ELSE LET current == updated(aggregator, price)
         IN  IF current.tick_count >= current.interval
               THEN [aggregator |-> start_candle(current, ts, price),
                     returned |-> Some(finished_candle(current, ts))]
               ELSE [aggregator |-> current, returned |-> None]

InitCandles ==
    /\ \E interval \in CandleIntervals :
          call = [aggregator |-> [mode |-> "tick", interval |-> interval,
                                  candle_open_time |-> None, open_price |-> None,
                                  high_price |-> None, low_price |-> None,
                                  close_price |-> None, tick_count |-> 0],
                  ticks |-> <<>>, members |-> {}, in_candles |-> <<>>]
    /\ result = None
    /\ positions = <<>>
    /\ NoAccount /\ NoTracker /\ NoTrade /\ NoRest

\* a tick of the stream arrives: its number is its time
OnNewTick ==
    /\ Len(call.ticks) < MaxTicks
    /\ \E price \in CandlePrices :
          LET ts == Len(call.ticks) + 1
              step == on_new_tick(call.aggregator, ts, price)
              closed == step.returned # None
              built_from == call.members \cup {ts}
          IN  /\ call' = [aggregator |-> step.aggregator,
                          ticks |-> Append(call.ticks, price),
                          members |-> IF closed THEN {ts} ELSE built_from,
                          in_candles |->
                              [i \in 1..ts |->
                                  Get(call.in_candles, i, 0)
                                      + (IF closed /\ i \in built_from THEN 1 ELSE 0)]]
              /\ result' = Some([function |-> "on_new_tick", returned |-> step.returned,
                                 built_from |-> IF closed THEN built_from ELSE {}])
    /\ UNCHANGED <<positions, accountVars, trackerVars, tradeVars, restVars>>

NextCandles == OnNewTick

SpecCandles == InitCandles /\ [][NextCandles]_vars

(***************************************************************************)
(* The waiting period of the staircase against the length of the chain:    *)
(* process_position_state caps profit_chain at                              *)
(* ConfigWatcher.get_param(symbol, "min_ticks_to_hold", 10), and            *)
(* sl_trailing_staircase waits while the chain is shorter than              *)
(* get_autotrade_param(symbol, "min_ticks_to_hold", 9).  tracked is the     *)
(* cached position, autotrade_config the settings file.                     *)
(***************************************************************************)
\* no settings file, a global value, an override of the symbol with and
\* without a global value, and an override above the fallback of the cap
WarmupSettings ==
    {EmptyDict,
     [defaults |-> [min_ticks_to_hold |-> 2]],
     [symbol_overrides |-> [EURUSD |-> [min_ticks_to_hold |-> 3]]],
     [defaults |-> [min_ticks_to_hold |-> 2],
      symbol_overrides |-> [EURUSD |-> [min_ticks_to_hold |-> 4]]],
     [symbol_overrides |-> [EURUSD |-> [min_ticks_to_hold |-> 12]]]}

\* prices 1 % apart: the rounded profit percent changes with every change
WarmupPrices == {24750, 25000, 25250}

\* the waiting period sl_trailing_staircase applies, lines 148 and 180
WaitingPeriod(settings, symbol) == StaircaseConfig(settings, symbol).min_ticks_to_hold

\* the cap process_position_state applies, lines 137-139
ChainCap(settings, symbol) ==
    get_param(settings, symbol, "min_ticks_to_hold", DefaultMaxChainLength)

InitWarmup ==
    /\ \E type \in Types, price \in WarmupPrices : tracked = TrackerPosition(type, price)
    /\ autotrade_config \in WarmupSettings
    /\ result = None
    /\ samples = <<>>
    /\ positions = <<>>
    /\ broker = <<>> /\ last_tick = <<>> /\ sl_requests = {} /\ next_ticket = 1
    /\ peak_seen = <<>>
    /\ call = <<>>
    /\ NoAccount /\ NoRest

\* one poll at a new price: save_positions runs process_position_state on the
\* position, then sl_trailing_staircase reads the chain from the cache
PollAtNewPrice ==
    /\ \E price \in WarmupPrices \ {tracked.price_current} :
          LET saved == process_position_state(Put(tracked, "price_current", price),
                                              autotrade_config)
              elapsed_ticks == Len(saved.profit_chain)
              min_ticks_to_hold == WaitingPeriod(autotrade_config, tracked.symbol)
          IN  /\ tracked' = saved
              /\ result' = Some([function |-> "sl_trailing_staircase",
                                 elapsed_ticks |-> elapsed_ticks,
                                 elapsed_before |-> Len(Get(tracked, "profit_chain", <<>>)),
                                 min_ticks_to_hold |-> min_ticks_to_hold,
                                 max_chain_length |->
                                     ChainCap(autotrade_config, tracked.symbol),
                                 warmup |-> elapsed_ticks < min_ticks_to_hold])
    /\ UNCHANGED <<positions, accountVars, samples, call, tradeVars, restVars>>

NextWarmup == PollAtNewPrice

SpecWarmup == InitWarmup /\ [][NextWarmup]_vars

(***************************************************************************)
(* One pass of the loop of manage_trade (trade.py 1905-2001) over one      *)
(* position, as a function of what sl_trailing_staircase is given: result  *)
(* holds the staircase's answer, the stop-loss request sent and the        *)
(* tickets close_position_by_ticket was called for.                        *)
(***************************************************************************)
\* lines 1936-1942 are commented out: the loop calls close_position_by_ticket
\* for no ticket, whatever close_signal is
ClosesIssued(pos, decision) == {}

ManageOnePosition ==
    /\ result = None
    /\ LET decision == sl_trailing_staircase(call.symbol, call.pos, call.tick, call.atr,
                                             call.cached_positions, call.settings)
       IN  result' = Some([function |-> "manage_trade",
                           decision |-> decision,
                           request |-> StopLossRequest(call.symbol, call.pos, call.tick,
                                                       call.atr, call.cached_positions,
                                                       call.settings),
                           closes |-> ClosesIssued(call.pos, decision),
                           updated |-> call.pos])
    /\ UNCHANGED <<restVars, positions, accountVars, trackerVars, call, tradeVars>>

NextManageOne == ManageOnePosition

SpecManageOne == InitStaircase /\ [][NextManageOne]_vars

(***************************************************************************)
(* The clearances of open_trade: get_limit_clearance and                   *)
(* get_cooldown_clearance (limits.py) on the summary get_total_positions   *)
(* hands to load_positions, and get_open_trade_clearance (trade.py).       *)
(***************************************************************************)
\* no limits file, a DEFAULT entry, an entry of the symbol, an entry of the
\* symbol without MAX_LONG_SIZE, an entry of another symbol only
LimitFiles ==
    {EmptyDict,
     [DEFAULT |-> [MAX_LONG_SIZE |-> 1, MAX_SHORT_SIZE |-> 1]],
     [EURUSD |-> [MAX_LONG_SIZE |-> 2, MAX_SHORT_SIZE |-> 1]],
     [EURUSD |-> [MAX_SHORT_SIZE |-> 2]],
     [BTCUSD |-> [MAX_LONG_SIZE |-> 1, MAX_SHORT_SIZE |-> 1]]}

BiasSettings ==
    {EmptyDict, [defaults |-> [bias |-> "long"]], [defaults |-> [bias |-> "short"]]}

\* the default of cooldown_seconds
DefaultCooldownSeconds == 120

\* opening times of the positions and times of the tick: 100, 120, 121 and
\* 200 seconds apart
OpenTimes == {1000, 1100}

TickTimes == {1100, 1220, 1221}

ClearanceTickets == {1, 2, 3}

ClearancePositions ==
    {<<>>}
        \cup {<<RawPosition(1, "EURUSD", t, 1, 12600, CycleQuote, 1000)>> : t \in Types}
        \cup {<<RawPosition(1, "EURUSD", t, 1, 12600, CycleQuote, 1000),
                RawPosition(2, "EURUSD", u, 1, 12600, CycleQuote, w)>> :
                 t \in Types, u \in Types, w \in OpenTimes}

\* parse_time: 0 for "" and 0, else the timestamp the string was formatted from
parse_time(value) == IF value = <<>> THEN 0 ELSE value[1]

get_symbol_limits(limits, symbol) == Get(limits, symbol, Get(limits, "DEFAULT", EmptyDict))

\* positions.load_positions on the summary get_total_positions returned
load_positions(total_positions, symbol) ==
    LET position_data == Get(total_positions, symbol, EmptyDict)
        long_data == Get(position_data, "LONG", EmptyDict)
        short_data == Get(position_data, "SHORT", EmptyDict)
    IN  [current_long_size |-> Get(long_data, "SIZE_SUM", 0),
         current_short_size |-> Get(short_data, "SIZE_SUM", 0),
         long_data |-> long_data, short_data |-> short_data]

\* get_limit_clearance, lines 69-129: the pair ('BUY' or None, 'SELL' or None)
get_limit_clearance(limits, symbol, total_positions) ==
    LET symbol_limits == get_symbol_limits(limits, symbol)
        max_long_size == Get(symbol_limits, "MAX_LONG_SIZE", 0)
        max_short_size == Get(symbol_limits, "MAX_SHORT_SIZE", 0)
        sizes == load_positions(total_positions, symbol)
    IN  IF symbol_limits = EmptyDict THEN <<None, None>>
        ELSE <<IF sizes.current_long_size < max_long_size THEN Some("BUY") ELSE None,
               IF sizes.current_short_size < max_short_size THEN Some("SELL") ELSE None>>

\* get_cooldown_clearance, lines 132-185
get_cooldown_clearance(limits, symbol, total_positions, current_tick_time) ==
    LET symbol_limits == get_symbol_limits(limits, symbol)
        cooldown_limit == Get(symbol_limits, "cooldown_seconds", DefaultCooldownSeconds)
        sides == load_positions(total_positions, symbol)
        last_long_time == parse_time(Get(sides.long_data, "LAST_POSITION_TIME", <<>>))
        last_short_time == parse_time(Get(sides.short_data, "LAST_POSITION_TIME", <<>>))
    IN  IF symbol_limits = EmptyDict THEN <<None, None>>
        ELSE <<IF current_tick_time - last_long_time > cooldown_limit
                 THEN Some("BUY") ELSE None,
               IF current_tick_time - last_short_time > cooldown_limit
                 THEN Some("SELL") ELSE None>>

\* mutant of get_open_trade_clearance: one clearance is enough
get_open_trade_clearance_either(limit_clearance, cooldown_clearance) ==
    [allow_buy |-> limit_clearance[1] # None \/ cooldown_clearance[1] # None,
     allow_sell |-> limit_clearance[2] # None \/ cooldown_clearance[2] # None]

\* get_open_trade_clearance, trade.py 134-146
get_open_trade_clearance(limit_clearance, cooldown_clearance) ==
    [allow_buy |-> limit_clearance[1] # None /\ cooldown_clearance[1] # None,
     allow_sell |-> limit_clearance[2] # None /\ cooldown_clearance[2] # None]

(***************************************************************************)
(* open_trade from the inversion check on (trade.py 578-754), step by      *)
(* step, as the operation of its own that it is called as (on_tick does    *)
(* not get to its call at algoapp.py 57: the call before it, line 56,      *)
(* passes a keyword that get_total_positions does not take), with the      *)
(* get_total_positions and the get_positions of abort_trade that on_tick   *)
(* runs at its lines 63-64.  broker holds the positions open at the        *)
(* broker, positions the list in positions.json, historical_summary the    *)
(* records written in                                                      *)
(* total_positions.json, and cache_file the state of the two files:        *)
(* whether positions.json is there and at most 10 seconds old, and whether *)
(* the text of total_positions.json parses.  call holds the trade limits,  *)
(* the time of the tick, per symbol the time at which its last position    *)
(* was closed, and the place and the locals of the call that runs.  The    *)
(* broker closes positions and the files age or break at any moment, also  *)
(* between two steps of a call; the clock of the cycle moves in steps far  *)
(* longer than a call, hence between calls.                                *)
(***************************************************************************)
openTradeFixed ==
    <<events, trackerVars, last_tick, autotrade_config, sl_requests, peak_seen, listenerVars>>

\* positions.json as get_positions writes it, and the text of
\* total_positions.json
AccountFiles(exists, fresh, accounting) ==
    [exists |-> exists, fresh |-> fresh, text |-> "positions", accounting |-> accounting]

\* no call is running: the inputs stay, the locals are cleared.  tickets
\* bounds the positions the broker opens, calls the calls of open_trade still
\* to come, and store holds what may become of a write of total_positions.json
Resting(limits, tick_time, tickets, calls, store, flat_since) ==
    [pc |-> "idle", limits |-> limits, tick_time |-> tick_time, tickets |-> tickets,
     calls |-> calls, store |-> store, flat_since |-> flat_since,
     symbol |-> "", consensus_signal |-> "NONE",
     cleared |-> FALSE, last_cycle_time |-> 0, flat |-> None,
     limit_clearance |-> <<None, None>>, cooldown_clearance |-> <<None, None>>,
     limit_seen |-> <<>>, cooldown_seen |-> <<>>, order_side |-> None, filled |-> FALSE]

Rested(c) ==
    Resting(c.limits, c.tick_time, c.tickets, c.calls, c.store, c.flat_since)

\* what is known of an open_trade call when it ends: the message it returns,
\* or the exception it ends with
Returned(c, message) ==
    Some([function |-> "open_trade", symbol |-> c.symbol, message |-> message,
          consensus_signal |-> c.consensus_signal,
          cleared |-> c.cleared, last_cycle_time |-> c.last_cycle_time,
          flat_since |-> c.flat, limits |-> c.limits, tick_time |-> c.tick_time,
          limit_seen |-> c.limit_seen, cooldown_seen |-> c.cooldown_seen,
          order_side |-> c.order_side, filled |-> c.filled])

\* maybe_invert_signal(symbol, consensus_signal), trade.py 580: the signals it
\* may hand back.  The function is imported from indicators/signal_indicator.py,
\* which does not define it: any signal may come back
maybe_invert_signal(symbol, consensus_signal) == Consensus

\* load_cached_positions, lines 30 and 40: the file is missing or outdated
Outdated == ~cache_file.exists \/ ~cache_file.fresh

\* get_total_positions (total_positions.py 205-329) from the point where
\* load_cached_positions has returned the list of positions.json: the records
\* and the text of total_positions.json after the call, and the summary the
\* call returns.  A file that does not parse loads as {} (lines 64-71);
\* save_total_positions logs a failed write (lines 504-509)
get_total_positions(save, outcome) ==
    LET loaded == IF cache_file.accounting = "json" THEN historical_summary ELSE EmptyDict
        saved == save_total_positions(historical_summary, MergedSummary(loaded, positions),
                                      outcome)
        writes == save /\ positions # <<>>
    IN  [records    |-> IF writes THEN saved.file ELSE historical_summary,
         accounting |-> IF ~writes \/ outcome = "failed" THEN cache_file.accounting
                        ELSE IF outcome = "written" THEN "json" ELSE "not_json",
         summary    |-> TotalPositionsOf(loaded, positions),
         wrote      |-> writes /\ outcome = "written"]

\* the clock of time.time() moves on by a step between two calls; after it
\* positions.json is older than 10 seconds and the next tick has a later time
ClockTicksUpTo(max) ==
    /\ call.pc = "idle"
    /\ clock < max
    /\ clock' = clock + ClockStep
    /\ call' = [call EXCEPT !.tick_time = clock']
    /\ cache_file' = [cache_file EXCEPT !.fresh = FALSE]
    /\ result' = None
    /\ UNCHANGED <<positions, historical_summary, snapshot_summary, broker, next_ticket,
                   openTradeFixed>>

\* positions.json grows older than 10 seconds
CacheExpires ==
    /\ cache_file.exists /\ cache_file.fresh
    /\ cache_file' = [cache_file EXCEPT !.fresh = FALSE]
    /\ result' = None
    /\ UNCHANGED <<positions, historical_summary, snapshot_summary, call, broker,
                   next_ticket, clock, openTradeFixed>>

\* the text of a total_positions.json that holds records is cut or changed
\* outside the program and parses no more; the records are still in the text
AccountingFileBreaks ==
    /\ cache_file.accounting = "json"
    /\ historical_summary # EmptyDict
    /\ cache_file' = [cache_file EXCEPT !.accounting = "not_json"]
    /\ result' = None
    /\ UNCHANGED <<positions, historical_summary, snapshot_summary, call, broker,
                   next_ticket, clock, openTradeFixed>>

\* the broker closes a position, on a close_trade order or at its stop; a
\* symbol whose last position goes is flat from this moment
PositionClosed ==
    /\ \E i \in 1..Len(broker) :
          LET symbol == broker[i].symbol
              rest == RemoveAt(broker, i)
          IN  /\ broker' = rest
              /\ call' = IF HasPositions(rest, symbol) THEN call
                         ELSE [call EXCEPT !.flat_since[symbol] = Some(clock)]
    /\ result' = None
    /\ UNCHANGED <<positions, historical_summary, snapshot_summary, next_ticket, cache_file,
                   clock, openTradeFixed>>

\* get_positions() between two calls, as abort_trade makes it on every tick
\* (trade.py 842): positions.json is written from the broker's list
PositionsPulled ==
    /\ call.pc = "idle"
    /\ positions' = broker
    /\ cache_file' = [cache_file EXCEPT !.exists = TRUE, !.fresh = TRUE]
    /\ result' = None
    /\ UNCHANGED <<historical_summary, snapshot_summary, call, broker, next_ticket, clock,
                   openTradeFixed>>

\* load_cached_positions at the head of get_total_positions, lines 30-45:
\* positions.json is missing or outdated, get_positions() writes it from the
\* broker's list, and after time.sleep(delay) the function calls itself
CachedPositionsRefreshed ==
    /\ call.pc \in {"limit", "cooldown", "refresh", "register", "merge"}
    /\ Outdated
    /\ positions' = broker
    /\ cache_file' = [cache_file EXCEPT !.exists = TRUE, !.fresh = TRUE]
    /\ UNCHANGED <<historical_summary, snapshot_summary, call, result, broker, next_ticket,
                   clock, openTradeFixed>>

\* on_tick (algoapp.py 63) calls get_total_positions(save=True)
AccountingCycle ==
    /\ call.pc = "idle"
    /\ call' = [call EXCEPT !.pc = "merge"]
    /\ result' = None
    /\ UNCHANGED <<positions, historical_summary, snapshot_summary, broker, next_ticket,
                   cache_file, clock, openTradeFixed>>

\* get_total_positions(save=True, use_cache=False) on the list of a fresh
\* positions.json: {} and no write without positions, else the merge into
\* what was loaded is saved and the snapshot returned
WriterMerge ==
    /\ call.pc = "merge"
    /\ ~Outdated
    /\ \E outcome \in call.store :
          LET total == get_total_positions(TRUE, outcome)
          IN  /\ positions = <<>> => outcome = "written"
              /\ historical_summary' = total.records
              /\ cache_file' = [cache_file EXCEPT !.accounting = total.accounting]
              /\ snapshot_summary' = total.summary
              /\ result' = Some([writer |-> "get_total_positions", symbol |-> "",
                                 saved |-> total.wrote])
    /\ call' = Rested(call)
    /\ UNCHANGED <<positions, broker, next_ticket, clock, openTradeFixed>>

\* open_trade(symbol), lines 578-599: the signal after maybe_invert_signal,
\* then check_cycle_clearance, whose load_total_positions raises on a file
\* that does not parse (cycle_limit.py 11-15) and which blocks the call during
\* the cooldown; a symbol without limits gets (None, None) from both
\* clearances, which read no file for it
OpenTradeEnters(symbol, original_signal) ==
    /\ call.pc = "idle"
    /\ call.calls > 0
    /\ \E consensus_signal \in maybe_invert_signal(symbol, original_signal) :
          LET readable == cache_file.accounting = "json"
              cleared == readable /\ check_cycle_clearance(historical_summary, symbol, clock,
                                                           autotrade_config)
              counted == [call EXCEPT !.calls = @ - 1]
              entered == [counted EXCEPT !.symbol = symbol,
                                      !.consensus_signal = consensus_signal,
                                      !.cleared = cleared,
                                      !.last_cycle_time =
                                          LastCycleTime(historical_summary, symbol),
                                      !.flat = call.flat_since[symbol]]
              no_limits == get_symbol_limits(call.limits, symbol) = EmptyDict
          IN  IF ~readable
                THEN /\ result' = Returned(entered, "JSONDecodeError")
                     /\ call' = counted
              ELSE IF ~cleared
                THEN /\ result' = Returned(entered, "Blocked by liquidation cooldown.")
                     /\ call' = counted
              ELSE /\ result' = None
                   /\ call' = [entered EXCEPT !.pc = IF no_limits THEN "gate" ELSE "limit"]
    /\ UNCHANGED <<positions, historical_summary, snapshot_summary, broker, next_ticket,
                   cache_file, clock, openTradeFixed>>

\* get_limit_clearance of get_open_trade_clearance (trade.py 139): for a
\* symbol with limits load_positions runs get_total_positions(save=True)
OpenTradeLimitClearance ==
    /\ call.pc = "limit"
    /\ ~Outdated
    /\ \E outcome \in call.store :
          LET total == get_total_positions(TRUE, outcome)
          IN  /\ positions = <<>> => outcome = "written"
              /\ historical_summary' = total.records
              /\ cache_file' = [cache_file EXCEPT !.accounting = total.accounting]
              /\ call' = [call EXCEPT !.pc = "cooldown",
                                      !.limit_clearance =
                                          get_limit_clearance(call.limits, call.symbol,
                                                              total.summary),
                                      !.limit_seen = positions]
    /\ UNCHANGED <<positions, snapshot_summary, result, broker, next_ticket, clock,
                   openTradeFixed>>

\* get_cooldown_clearance (trade.py 140): get_total_positions(save=True) again
OpenTradeCooldownClearance ==
    /\ call.pc = "cooldown"
    /\ ~Outdated
    /\ \E outcome \in call.store :
          LET total == get_total_positions(TRUE, outcome)
          IN  /\ positions = <<>> => outcome = "written"
              /\ historical_summary' = total.records
              /\ cache_file' = [cache_file EXCEPT !.accounting = total.accounting]
              /\ call' = [call EXCEPT !.pc = "gate",
                                      !.cooldown_clearance =
                                          get_cooldown_clearance(call.limits, call.symbol,
                                                                 total.summary,
                                                                 call.tick_time),
                                      !.cooldown_seen = positions]
    /\ UNCHANGED <<positions, snapshot_summary, result, broker, next_ticket, clock,
                   openTradeFixed>>

\* lines 142-146 and 620-684: the two answers are joined, the bias gate
\* returns, and open_buy / open_sell sends the order of the signal's side if
\* that side is allowed; the broker opens the position of a filled order
OpenTradeSends ==
    /\ call.pc = "gate"
    /\ \E order \in OrderOutcomes :
          LET symbol == call.symbol
              clearance == get_open_trade_clearance(call.limit_clearance,
                                                    call.cooldown_clearance)
              bias == get_autotrade_param(autotrade_config, symbol, "bias", "none")
              biased == \/ bias = "long" /\ call.consensus_signal = "SELL"
                        \/ bias = "short" /\ call.consensus_signal = "BUY"
              side == IF call.consensus_signal = "BUY" /\ clearance.allow_buy
                        THEN Some("BUY")
                      ELSE IF call.consensus_signal = "SELL" /\ clearance.allow_sell
                        THEN Some("SELL")
                      ELSE None
              sent == [call EXCEPT !.order_side = side]
          IN  IF biased
                THEN /\ order = "nothing"
                     /\ result' = Returned(call, "Blocked by long bias.")
                     /\ call' = Rested(call)
                     /\ UNCHANGED <<broker, next_ticket>>
              ELSE IF side = None
                THEN /\ order = "nothing"
                     /\ result' = Returned(call, "No trade executed (signal or clearance).")
                     /\ call' = Rested(call)
                     /\ UNCHANGED <<broker, next_ticket>>
              ELSE IF order = "nothing"
                THEN /\ result' = Returned(sent, "Trade execution failed.")
                     /\ call' = Rested(call)
                     /\ UNCHANGED <<broker, next_ticket>>
              ELSE IF order = "refused"
                THEN /\ result' = None
                     /\ call' = [sent EXCEPT !.pc = "register"]
                     /\ UNCHANGED <<broker, next_ticket>>
              ELSE /\ next_ticket \in call.tickets
                   /\ broker' = Append(broker,
                                       RawPosition(next_ticket, symbol, TheValue(side), 1,
                                                   12600, CycleQuote, call.tick_time))
                   /\ next_ticket' = next_ticket + 1
                   /\ result' = None
                   /\ call' = [sent EXCEPT !.pc = "refresh", !.filled = TRUE,
                                           !.flat_since[symbol] = None]
    /\ UNCHANGED <<positions, historical_summary, snapshot_summary, cache_file, clock,
                   openTradeFixed>>

\* line 709, after a filled order: get_total_positions(save=True,
\* use_cache=False), which reads the list of positions.json like every other
\* call: a fresh file written before the order does not hold the new position
OpenTradeRefreshes ==
    /\ call.pc = "refresh"
    /\ ~Outdated
    /\ \E outcome \in call.store :
          LET total == get_total_positions(TRUE, outcome)
          IN  /\ positions = <<>> => outcome = "written"
              /\ historical_summary' = total.records
              /\ cache_file' = [cache_file EXCEPT !.accounting = total.accounting]
    /\ call' = [call EXCEPT !.pc = "register"]
    /\ UNCHANGED <<positions, snapshot_summary, result, broker, next_ticket, clock,
                   openTradeFixed>>

\* lines 722-754: get_total_positions(save=False) and register_cycle for the
\* flat symbols of its summary; register_cycle loads the file unguarded
\* (cycle_limit.py 29) and logs a failed write (lines 17-23)
OpenTradeRegisters ==
    /\ call.pc = "register"
    /\ ~Outdated
    /\ \E outcome \in call.store :
          LET total_positions == get_total_positions(FALSE, outcome).summary
              registered == RegisterFlatSymbols(historical_summary, total_positions,
                                                DOMAIN total_positions, clock)
          IN  IF FlatSymbols(total_positions) = {}
                THEN /\ outcome = "written"
                     /\ result' = Returned(call, "Trade executed.")
                     /\ UNCHANGED <<historical_summary, cache_file>>
              ELSE IF cache_file.accounting # "json"
                THEN /\ outcome = "written"
                     /\ result' = Returned(call, "JSONDecodeError")
                     /\ UNCHANGED <<historical_summary, cache_file>>
              ELSE /\ historical_summary' =
                          save_total_positions(historical_summary, registered, outcome).file
                   /\ cache_file' = [cache_file EXCEPT !.accounting =
                                        IF outcome = "truncated" THEN "not_json" ELSE @]
                   /\ result' = Returned(call, "Trade executed.")
    /\ call' = Rested(call)
    /\ UNCHANGED <<positions, snapshot_summary, broker, next_ticket, clock, openTradeFixed>>

(***************************************************************************)
(* The liquidation cycle on one symbol: positions are opened by open_trade *)
(* and closed at the broker while the clock runs.                          *)
(***************************************************************************)
\* limits that leave room for the BUY orders of the flow
CycleLimits == [DEFAULT |-> [MAX_LONG_SIZE |-> 2]]

\* the clock at the end of the flow, two steps after CycleStart
CycleMaxClock == 1900

\* the calls of open_trade in a flow
CycleCalls == 2

InitCycleWith(file, store) ==
    /\ positions = <<>>
    /\ historical_summary = file
    /\ events = 0
    /\ snapshot_summary = EmptyDict
    /\ clock = CycleStart
    /\ autotrade_config \in CycleSettings
    /\ call = Resting(CycleLimits, CycleStart, CycleTickets, CycleCalls, store,
                      [symbol \in AccountSymbols |-> None])
    /\ result = None
    /\ broker = <<>> /\ last_tick = <<>> /\ sl_requests = {} /\ next_ticket = 1
    /\ peak_seen = <<>>
    /\ cache_file = AccountFiles(TRUE, TRUE, "json") /\ NoListener
    /\ NoTracker

\* the flow on a disk that takes every write
InitCycle == InitCycleWith(EmptyDict, {"written"})

CycleClockTicks == ClockTicksUpTo(CycleMaxClock)

\* open_trade(symbol) is called with the consensus of the signals
OpenTradeCycle ==
    \E symbol \in AccountSymbols, original_signal \in Consensus :
        OpenTradeEnters(symbol, original_signal)

NextCycle ==
    \/ CycleClockTicks
    \/ CacheExpires
    \/ PositionClosed
    \/ PositionsPulled
    \/ AccountingCycle
    \/ WriterMerge
    \/ OpenTradeCycle
    \/ CachedPositionsRefreshed
    \/ OpenTradeLimitClearance
    \/ OpenTradeCooldownClearance
    \/ OpenTradeSends
    \/ OpenTradeRefreshes
    \/ OpenTradeRegisters

SpecCycle == InitCycle /\ [][NextCycle]_vars

(***************************************************************************)
(* The cooldown after a registered cycle: the same flow, started on a      *)
(* total_positions.json that may hold a cycle register_cycle has written   *)
(* for the symbol at the start of the clock, with writes that may fail and *)
(* a file that may break.                                                  *)
(***************************************************************************)
CooldownFiles ==
    {EmptyDict, register_cycle(EmptyDict, "EURUSD", CycleStart)}

InitCooldown == \E file \in CooldownFiles : InitCycleWith(file, WriteOutcomes)

NextCooldown == NextCycle \/ AccountingFileBreaks

SpecCooldown == InitCooldown /\ [][NextCooldown]_vars

(***************************************************************************)
(* The clearances under every limits file, bias and tick time, on an       *)
(* account that holds up to two positions of the symbol.                   *)
(***************************************************************************)
\* the calls of open_trade in a flow
ClearanceCalls == 1

InitClearance ==
    /\ \E limits \in LimitFiles, time \in TickTimes :
          call = Resting(limits, time, ClearanceTickets, ClearanceCalls, {"written"},
                         [symbol \in {"EURUSD"} |-> None])
    /\ broker \in ClearancePositions
    /\ positions = broker
    /\ next_ticket = Len(broker) + 1
    /\ autotrade_config \in BiasSettings
    /\ historical_summary = EmptyDict
    /\ events = 0
    /\ snapshot_summary = EmptyDict
    /\ result = None
    /\ last_tick = <<>> /\ sl_requests = {} /\ peak_seen = <<>>
    /\ cache_file = AccountFiles(TRUE, TRUE, "json")
    /\ NoListener /\ clock = 0
    /\ NoTracker

\* open_trade("EURUSD") is called with the consensus of the signals
OpenTradeGated ==
    \E original_signal \in Consensus : OpenTradeEnters("EURUSD", original_signal)

NextClearance ==
    \/ CacheExpires
    \/ PositionClosed
    \/ OpenTradeGated
    \/ CachedPositionsRefreshed
    \/ OpenTradeLimitClearance
    \/ OpenTradeCooldownClearance
    \/ OpenTradeSends
    \/ OpenTradeRefreshes
    \/ OpenTradeRegisters

SpecClearance == InitClearance /\ [][NextClearance]_vars

(***************************************************************************)
(* The two writers of total_positions.json on an account with two symbols: *)
(* the historical merge of get_total_positions(save=True), on its own and  *)
(* inside open_trade, and register_cycle.                                  *)
(***************************************************************************)
WriterSymbols == {"EURUSD", "BTCUSD"}

WriterTickets == {1, 2}

\* the signal of the orders of this flow; the limits admit one BUY a symbol
WriterSignals == {"BUY"}

WriterLimits == [DEFAULT |-> [MAX_LONG_SIZE |-> 1]]

\* the clock at the end, one step after CycleStart
WriterMaxClock == 1450

\* the calls of open_trade in a flow
WriterCalls == 1

InitWriters ==
    /\ positions = <<>>
    /\ historical_summary = EmptyDict
    /\ events = 0
    /\ snapshot_summary = EmptyDict
    /\ clock = CycleStart
    /\ autotrade_config = EmptyDict
    /\ call = Resting(WriterLimits, CycleStart, WriterTickets, WriterCalls,
                      WriteOutcomes,
                      [symbol \in WriterSymbols |-> None])
    /\ result = None
    /\ broker = <<>> /\ last_tick = <<>> /\ sl_requests = {} /\ next_ticket = 1
    /\ peak_seen = <<>>
    /\ cache_file = AccountFiles(TRUE, TRUE, "json") /\ NoListener
    /\ NoTracker

WriterClockTicks == ClockTicksUpTo(WriterMaxClock)

\* register_cycle(symbol), cycle_limit.py 25-44: load_total_positions raises on
\* a file that does not parse; the file is written only for a symbol whose
\* NET record is flat or missing, and a failed write is logged
WriterRegisterCycle ==
    /\ call.pc = "idle"
    /\ \E symbol \in WriterSymbols, outcome \in call.store :
          LET registered == register_cycle(historical_summary, symbol, clock)
              Registered(saved, raised) ==
                  Some([writer |-> "register_cycle", symbol |-> symbol, saved |-> saved,
                        raised |-> raised])
          IN  IF cache_file.accounting # "json"
                THEN /\ outcome = "written"
                     /\ result' = Registered(FALSE, TRUE)
                     /\ UNCHANGED <<historical_summary, cache_file>>
              ELSE IF ~NetIsFlat(Get(historical_summary, symbol, EmptyDict))
                THEN /\ outcome = "written"
                     /\ result' = Registered(FALSE, FALSE)
                     /\ UNCHANGED <<historical_summary, cache_file>>
              ELSE /\ historical_summary' =
                          save_total_positions(historical_summary, registered, outcome).file
                   /\ cache_file' = [cache_file EXCEPT !.accounting =
                                        IF outcome = "truncated" THEN "not_json" ELSE @]
                   /\ result' = Registered(outcome = "written", FALSE)
    /\ UNCHANGED <<positions, snapshot_summary, call, broker, next_ticket, clock,
                   openTradeFixed>>

\* open_trade(symbol) is called with a BUY consensus
WriterOpenTrade ==
    \E symbol \in WriterSymbols, original_signal \in WriterSignals :
        OpenTradeEnters(symbol, original_signal)

NextWriters ==
    \/ WriterClockTicks
    \/ CacheExpires
    \/ AccountingFileBreaks
    \/ PositionClosed
    \/ PositionsPulled
    \/ AccountingCycle
    \/ WriterMerge
    \/ WriterRegisterCycle
    \/ WriterOpenTrade
    \/ CachedPositionsRefreshed
    \/ OpenTradeLimitClearance
    \/ OpenTradeCooldownClearance
    \/ OpenTradeSends
    \/ OpenTradeRefreshes
    \/ OpenTradeRegisters

SpecWriters == InitWriters /\ [][NextWriters]_vars

(***************************************************************************)
(* The config file under its changes: rewritten, corrupted, moved away and *)
(* moved back, with load_if_changed called at any moment.  Every write     *)
(* gives the file a later mtime; a file moved back keeps the mtime it had. *)
(***************************************************************************)
WatcherObjects ==
    {EmptyDict,
     [defaults |-> [min_ticks_to_hold |-> 2]],
     [symbol_overrides |-> [EURUSD |-> [min_ticks_to_hold |-> 3]]]}

FileValid(file) == file.state = "present" /\ file.parses

InitWatcher ==
    /\ call = [file |-> MissingFile, away |-> None, last_mtime |-> 0]
    /\ autotrade_config = EmptyDict
    /\ clock = CycleStart
    /\ result = None
    /\ positions = <<>>
    /\ broker = <<>> /\ last_tick = <<>> /\ sl_requests = {} /\ next_ticket = 1
    /\ peak_seen = <<>>
    /\ cache_file = <<>> /\ NoListener
    /\ NoAccount /\ NoTracker

\* the file is written with a JSON object, later than every write before
WatcherRewrite ==
    /\ clock < MaxClock
    /\ clock' = clock + ClockStep
    /\ \E data \in WatcherObjects :
          call' = [call EXCEPT !.file = [state |-> "present", parses |-> TRUE,
                                         data |-> data, mtime |-> clock']]
    /\ result' = None
    /\ UNCHANGED <<positions, accountVars, trackerVars, tradeVars, cache_file,
                   listenerVars>>

\* the file is written with a text that is not JSON
WatcherCorrupt ==
    /\ clock < MaxClock
    /\ clock' = clock + ClockStep
    /\ call' = [call EXCEPT !.file = [state |-> "present", parses |-> FALSE,
                                      data |-> EmptyDict, mtime |-> clock']]
    /\ result' = None
    /\ UNCHANGED <<positions, accountVars, trackerVars, tradeVars, cache_file,
                   listenerVars>>

\* the file is deleted: moved out of the config directory
WatcherDelete ==
    /\ call.file.state = "present"
    /\ call' = [call EXCEPT !.file = MissingFile, !.away = Some(call.file)]
    /\ result' = None
    /\ UNCHANGED <<positions, accountVars, trackerVars, tradeVars, restVars>>

\* the deleted file is restored: moved back, content and mtime as they were
WatcherRestore ==
    /\ call.file.state = "missing" /\ call.away # None
    /\ call' = [call EXCEPT !.file = TheValue(call.away), !.away = None]
    /\ result' = None
    /\ UNCHANGED <<positions, accountVars, trackerVars, tradeVars, restVars>>

\* autotrade_config_watcher.load_if_changed()
LoadIfChanged ==
    /\ LET watcher == load_if_changed(call.file, autotrade_config, call.last_mtime)
       IN  /\ autotrade_config' = watcher.config
           /\ call' = [call EXCEPT !.last_mtime = watcher.last_mtime]
           /\ result' = Some([function |-> "load_if_changed",
                              valid |-> FileValid(call.file),
                              content |-> call.file.data,
                              config_before |-> autotrade_config])
    /\ UNCHANGED <<positions, accountVars, trackerVars, broker, last_tick, sl_requests,
                   next_ticket, peak_seen, restVars>>

NextWatcher ==
    WatcherRewrite \/ WatcherCorrupt \/ WatcherDelete \/ WatcherRestore \/ LoadIfChanged

SpecWatcher == InitWatcher /\ [][NextWatcher]_vars

(***************************************************************************)
(* Claims about the accounting records.                                    *)
(***************************************************************************)
PersistedSides(symbol) == SideNames \cap DOMAIN historical_summary[symbol]

\* C1: in every persisted symbol x side record, CLOSE_SIGNAL is True only if
\* GOAL_MET and TRAILING_CROSSED are both True in that record.
C1_CloseSignalConjunction ==
    \A symbol \in DOMAIN historical_summary :
        \A side \in PersistedSides(symbol) :
            LET record == historical_summary[symbol][side]
            IN  Get(record, "CLOSE_SIGNAL", FALSE) =>
                    (Get(record, "GOAL_MET", FALSE) /\ Get(record, "TRAILING_CROSSED", FALSE))

RecordIsReset(record) ==
    /\ record.PROFIT_RECORD_TRACK = 0
    /\ record.LOSS_RECORD_TRACK = 0
    /\ ~Get(record, "GOAL_MET", FALSE)
    /\ ~Get(record, "TRAILING_CROSSED", FALSE)
    /\ ~Get(record, "CLOSE_SIGNAL", FALSE)

\* C2: when a side's SIZE_SUM is non-zero after one merge and 0 in the
\* snapshot of the next merge, the record that merge persists has both
\* extreme tracks 0 and GOAL_MET, TRAILING_CROSSED and CLOSE_SIGNAL all False.
C2_HistoricalResetLaw ==
    [][(positions' = positions /\ positions # <<>>) =>
          \A symbol \in (DOMAIN historical_summary) \cap (DOMAIN SnapshotOf(positions)) :
              \A side \in PersistedSides(symbol) :
                  (/\ historical_summary[symbol][side].SIZE_SUM # 0
                   /\ SnapshotOf(positions)[symbol][side].SIZE_SUM = 0)
                  => RecordIsReset(historical_summary'[symbol][side])]_vars

\* C8: in the output of aggregate_position_data, NET.SIZE_SUM is
\* LONG.SIZE_SUM - SHORT.SIZE_SUM and NET.AVG_PRICE is 0 whenever
\* NET.SIZE_SUM is 0.
C8_NetInvariant ==
    \A symbol \in DOMAIN snapshot_summary :
        LET sides == snapshot_summary[symbol]
        IN  /\ sides.NET.SIZE_SUM = sides.LONG.SIZE_SUM - sides.SHORT.SIZE_SUM
            /\ (sides.NET.SIZE_SUM = 0 => sides.NET.AVG_PRICE = 0)

\* C8 witness: a symbol whose LONG and SHORT sizes are equal and non-zero
C8_HedgedSymbol ==
    \E symbol \in DOMAIN snapshot_summary :
        /\ snapshot_summary[symbol].LONG.SIZE_SUM > 0
        /\ snapshot_summary[symbol].LONG.SIZE_SUM = snapshot_summary[symbol].SHORT.SIZE_SUM
        /\ snapshot_summary[symbol].LONG.AVG_PRICE # snapshot_summary[symbol].SHORT.AVG_PRICE
        /\ snapshot_summary[symbol].NET.AVG_PRICE = 0

\* C6: after every update_position_profit_chain call with max_chain_length = 10
\* the profit_chain has at most 10 entries, no two adjacent entries are equal,
\* and it is the most recent distinct rounded samples in order (the oldest are
\* the ones dropped).
C6_ProfitChainBounded ==
    "profit_chain" \in DOMAIN tracked =>
        LET chain == tracked.profit_chain
        IN  /\ Len(chain) <= 10
            /\ \A i \in 1..(Len(chain) - 1) : chain[i] # chain[i + 1]
            /\ Len(chain) = Min2(Len(samples), 10)
            /\ \A i \in 1..Len(chain) :
                  chain[i] = samples[Len(samples) - Len(chain) + i]

\* more than 10 distinct samples were taken, and the last observation repeated
\* the newest one
C6_OldestDropped ==
    /\ "profit_chain" \in DOMAIN tracked
    /\ Len(samples) > 10
    /\ Len(tracked.profit_chain) = 10
    /\ tracked.profit_chain[1] # samples[1]
    /\ tracked.price_current = 25003
    /\ tracked.peak_profit = 16

\* the profit percent of a position, from its prices, in thousandths of a percent
\* (whole on the prices used here)
CurrentProfitPercent(p) ==
    IF p.type = "SELL" THEN ((p.price_open - p.price_current) * 100000) \div p.price_open
    ELSE ((p.price_current - p.price_open) * 100000) \div p.price_open

\* C10: check_trailing_retrace(position, retrace_pct) is True exactly when
\* peak_profit > 0 and (peak_profit - current profit percent) / peak_profit >=
\* retrace_pct; with 0.382, peak 10.0 and current 6.0 give True, peak 10.0 and
\* current 7.0 give False, and a peak <= 0 gives False.
C10_TrailingRetrace ==
    result # None =>
        LET p == call.position
            peak == IF "peak_profit" \in DOMAIN p THEN p.peak_profit ELSE 0
            r == call.retrace_pct
            retraced == /\ peak > 0
                        /\ (peak - CurrentProfitPercent(p)) * r.den >= r.num * peak
        IN  /\ TheValue(result) = retraced
            /\ (r = [num |-> 382, den |-> 1000] /\ peak = 10000 /\ p.type = "BUY") =>
                  /\ p.price_current = 26500 => TheValue(result) = TRUE
                  /\ p.price_current = 26750 => TheValue(result) = FALSE
            /\ peak <= 0 => TheValue(result) = FALSE

\* peak 10.0, current 5.0 and retrace_pct 0.5: exactly at the limit, and True
C10_RetraceAtLimit ==
    /\ result = Some(TRUE)
    /\ call.retrace_pct = [num |-> 5, den |-> 10]
    /\ call.position.peak_profit = 10000
    /\ call.position.type = "BUY"
    /\ call.position.price_current = 26250

\* the arguments of the evaluated call, as the claims about the staircase name them
CallElapsedTicks ==
    IF call.cached_positions = <<>> THEN 0
    ELSE Len(call.cached_positions[1].profit_chain)

CallMinTicksToHold == StaircaseConfig(call.settings, call.symbol).min_ticks_to_hold

\* pct_profit < -max_loss_decimal, with max_loss_decimal = 0.5 %
CallBelowMaxLoss ==
    IF call.pos.type = "BUY"
      THEN (call.tick.bid - call.pos.price_open) * 1000 < 0 - 5 * call.pos.price_open
      ELSE (call.pos.price_open - call.tick.ask) * 1000 < 0 - 5 * call.pos.price_open

\* C4: whenever the direction-aware pct_profit is below -max_loss_decimal,
\* sl_trailing_staircase returns no recommendation and close = True, whatever
\* else holds (pct_profit = -1.0 % with max_loss_decimal = 0.5 % included).
C4_HardStopPriority ==
    (result # None /\ CallBelowMaxLoss) => result = Some(Decision(None, TRUE))

\* a BUY at -1.0 %, past the waiting period, with a trailing threshold it exceeds
C4_HardStopOverTrailing ==
    /\ result = Some(Decision(None, TRUE))
    /\ call.pos.type = "BUY"
    /\ call.tick.bid = 9900
    /\ CallElapsedTicks >= CallMinTicksToHold
    /\ "symbol_overrides" \in DOMAIN call.settings

\* C5 as stated: while elapsed_ticks is below min_ticks_to_hold the result is
\* (None, False) for every price, the waiting period being tested first.
C5_WarmupFirst ==
    (result # None /\ CallElapsedTicks < CallMinTicksToHold)
        => result = Some(Decision(None, FALSE))

\* C5 amended: while elapsed_ticks is below min_ticks_to_hold the result is
\* (None, False) for every price whose pct_profit is not below -max_loss_decimal;
\* the hard stop is tested before the waiting period and still returns
\* (None, True), and the waiting period is tested before the ATR buffer and
\* the trailing activation.
C5_WarmupAfterHardStop ==
    (result # None /\ CallElapsedTicks < CallMinTicksToHold)
        => result = Some(Decision(None, IF CallBelowMaxLoss THEN TRUE ELSE FALSE))

\* a BUY 1 % in profit, far beyond the break-even trigger, still in the waiting period
C5_WarmupHoldsTrailing ==
    /\ result = Some(Decision(None, FALSE))
    /\ call.pos.type = "BUY"
    /\ call.tick.bid = 10100
    /\ call.atr = 20
    /\ call.settings = EmptyDict
    /\ CallElapsedTicks = 8

\* the move of the evaluated call in percent of the entry price
CallMovePct ==
    IF call.pos.type = "BUY"
      THEN Frac((call.tick.bid - call.pos.price_open) * 100, call.pos.price_open)
      ELSE Frac((call.pos.price_open - call.tick.ask) * 100, call.pos.price_open)

\* the stop a trail to the band of timeframe tf gives: the entry price moved by
\* that band's percent
CallTrailTo(tf) ==
    LET pct == TheValue(call.profile)[tf].mean_atr_pct
        open_price == call.pos.price_open
    IN  IF call.pos.type = "BUY"
          THEN Frac(open_price * pct.den * 100 + pct.num * open_price, pct.den * 100)
          ELSE Frac(open_price * pct.den * 100 - pct.num * open_price, pct.den * 100)

\* C9: trailing_staircase walks the ladder largest threshold first (1d -> take
\* profit, 1h -> trail to the 15m band, 15m -> 5m band, 5m -> 1m band), move_pct
\* and the mean_atr_pct thresholds being in the same unit, percent of the entry
\* price; below the 5m threshold nothing is recommended.  With mean_atr_pct
\* {1m: 0.1, 5m: 0.3, 15m: 0.8, 1h: 2, 1d: 5}, a BUY opened at 10000 and a bid
\* of 10060 give stop 10010 and take_profit False.
C9_LadderSameUnit ==
    (result # None /\ call.profile # None /\ DOMAIN TheValue(call.profile) = Timeframes) =>
        LET pr == TheValue(call.profile)
            r == TheValue(result)
            met(tf) == FracGeq(CallMovePct, pr[tf].mean_atr_pct)
            trails(tf) == /\ r.take_profit = FALSE
                          /\ r.recommended_sl # None
                          /\ FracEq(TheValue(r.recommended_sl), CallTrailTo(tf))
        IN  /\ IF met("1d") THEN r = LadderResult(None, TRUE)
               ELSE IF met("1h") THEN trails("15m")
               ELSE IF met("15m") THEN trails("5m")
               ELSE IF met("5m") THEN trails("1m")
               ELSE r = LadderResult(None, FALSE)
            /\ (pr = PercentProfile /\ call.pos.type = "BUY" /\ call.tick.bid = 10060) =>
                  /\ r.take_profit = FALSE
                  /\ r.recommended_sl # None
                  /\ FracEq(TheValue(r.recommended_sl), Frac(10010, 1))

\* C3: every stop-loss manage_trade sends for a BUY is strictly higher than the
\* stop-loss the position has at the broker, and for a SELL strictly lower, so
\* every stop-loss the broker accepts from manage_trade moves the position's
\* stop-loss up for a BUY and down for a SELL; a recommendation that is no
\* improvement is not sent.
C3_StopLossMonotonic ==
    /\ [](\A sent \in sl_requests :
             sent.request.comment = "SL Trailing Adjust" =>
                /\ sent.request.type = "BUY" => sent.request.sl > sent.current_sl
                /\ sent.request.type = "SELL" => sent.request.sl < sent.current_sl)
    /\ [][~NoManageWaiting =>
             \A i \in 1..Len(broker) : \A j \in 1..Len(broker') :
                broker[i].ticket = broker'[j].ticket =>
                   /\ broker[i].type = "BUY" => broker'[j].sl >= broker[i].sl
                   /\ broker[i].type = "SELL" => broker'[j].sl <= broker[i].sl]_vars

\* a BUY whose stop-loss was already raised to 10002 has just had 10060 sent by
\* manage_trade and accepted
C3_SecondRaiseAccepted ==
    /\ sl_requests = {[request |-> [position |-> 1, symbol |-> "EURUSD", type |-> "BUY",
                                    sl |-> 10060, comment |-> "SL Trailing Adjust"],
                       current_sl |-> 10002]}
    /\ result # None
    /\ Len(broker) = 1
    /\ broker[1].sl = 10060

\* C7: across save_positions cycles the peak_profit of a cached ticket never
\* decreases, and it always equals the largest profit percent computed for that
\* ticket in any cycle since it was first saved.
C7_PeakProfitRunningMax ==
    /\ [](\A i \in 1..Len(positions) :
             /\ positions[i].ticket \in DOMAIN peak_seen
             /\ positions[i].peak_profit = peak_seen[positions[i].ticket])
    /\ [][\A i \in 1..Len(positions) : \A j \in 1..Len(positions') :
             positions[i].ticket = positions'[j].ticket =>
                positions'[j].peak_profit >= positions[i].peak_profit]_vars

\* a BUY that was saved 1 % up is saved again 1 % down and keeps its peak
C7_PeakKeptAfterFall ==
    /\ Len(positions) = 1
    /\ positions[1].type = "BUY"
    /\ positions[1].price_current = 9900
    /\ positions[1].peak_profit = 1000
    /\ calculate_profit_pct(positions[1]) = 0 - 1000


\* the places in the raw position list of the positions of one symbol and side
GroupOf(symbol, side) ==
    {i \in 1..Len(positions) : positions[i].symbol = symbol /\ SideOf(positions[i]) = side}

\* the sum of f over the places in group
RECURSIVE SumOver(_, _)
SumOver(group, f) ==
    IF group = {} THEN 0
    ELSE LET i == CHOOSE i \in group : TRUE
         IN  f[i] + SumOver(group \ {i}, f)

\* C11: for every (symbol, side) group of raw positions the snapshot builder
\* yields POSITION_COUNT = the number of positions, SIZE_SUM = the sum of the
\* volumes, AVG_PRICE = sum(price_open * volume) / sum(volume), UNREALIZED_PROFIT
\* = the sum of the profits, and CURRENT_PRICE / LAST_POSITION_TIME of the first
\* position of the group that has the maximum raw timestamp; an empty side of a
\* symbol has count, size and average 0 and no current price.
C11_SideSummaryOfGroup ==
    snapshot_summary # EmptyDict =>
        /\ DOMAIN snapshot_summary = {positions[i].symbol : i \in 1..Len(positions)}
        /\ \A symbol \in DOMAIN snapshot_summary : \A side \in {"LONG", "SHORT"} :
              LET group == GroupOf(symbol, side)
                  summary == snapshot_summary[symbol][side]
                  volume == SumOver(group, [i \in group |-> positions[i].volume])
                  weighted == SumOver(group, [i \in group |->
                                  positions[i].price_open * positions[i].volume])
              IN  /\ summary.POSITION_COUNT = Cardinality(group)
                  /\ summary.SIZE_SUM = volume
                  /\ summary.AVG_PRICE * volume = weighted
                  /\ volume = 0 => summary.AVG_PRICE = 0
                  /\ summary.UNREALIZED_PROFIT =
                        SumOver(group, [i \in group |-> positions[i].profit])
                  /\ group = {} => summary.CURRENT_PRICE = None
                                   /\ summary.LAST_POSITION_TIME = <<>>
                  /\ \A i \in group :
                        (/\ \A j \in group : positions[j].time_raw <= positions[i].time_raw
                         /\ \A j \in group : j < i => positions[j].time_raw < positions[i].time_raw)
                        => /\ summary.CURRENT_PRICE = Some(positions[i].price_current)
                           /\ summary.LAST_POSITION_TIME = positions[i].time_open

\* C11 witness: the three EURUSD BUYs give SIZE_SUM 0.04 and AVG_PRICE 1.10025,
\* and of the two positions opened last the first one gives the current price
C11_ThreeBuys ==
    /\ positions = ExamplePositions
    /\ snapshot_summary # EmptyDict
    /\ snapshot_summary["EURUSD"].LONG.SIZE_SUM = 4
    /\ snapshot_summary["EURUSD"].LONG.AVG_PRICE = 110025
    /\ snapshot_summary["EURUSD"].LONG.CURRENT_PRICE = Some(QuoteAt(2).price_current)
    /\ QuoteAt(2).price_current # QuoteAt(3).price_current

\* how the last get_total_positions call ended, when no broker event followed it
LastCall == TheValue(result)

\* C13: merging the snapshot of the same raw positions a second time leaves
\* the persisted records as the first merge wrote them: after a call that
\* wrote the record, merge(S, record) = record, also for a symbol the first
\* merge saw for the first time.
C13_MergeIdempotent ==
    (result # None /\ LastCall.write = "written")
        => MergedSummary(historical_summary, positions) = historical_summary

\* the LONG / SHORT / NET summaries in returned are those the snapshot builder
\* gives for the raw positions ps, field by field
IsSnapshotOf(returned, ps) ==
    /\ DOMAIN returned = DOMAIN SnapshotOf(ps)
    /\ \A symbol \in DOMAIN returned : \A side \in SideNames :
          \A key \in DOMAIN SnapshotOf(ps)[symbol][side] :
              /\ key \in DOMAIN returned[symbol][side]
              /\ returned[symbol][side][key] = SnapshotOf(ps)[symbol][side][key]

\* C17: a get_total_positions call whose write of the accounting file fails
\* raises nothing and still returns the snapshot summary of the cached
\* positions; the file keeps what the failure left of it, and the call after
\* a failed write writes the merge of the file as it reads it then with the
\* snapshot it computes then.
C17_WriteFailureAbsorbed ==
    [][(result' # None /\ positions' = positions /\ positions # <<>>) =>
          LET now == TheValue(result')
          IN  /\ ~now.raised
              /\ IsSnapshotOf(snapshot_summary', positions)
              /\ now.write = "failed" => historical_summary' = historical_summary
              /\ now.write = "truncated" => historical_summary' = EmptyDict
              /\ (now.again /\ now.write = "written")
                    => historical_summary' = MergedSummary(historical_summary, positions)]_vars

\* C17 witness: the call after a failed write has written the record of the
\* open position and returned its snapshot
C17_WrittenAfterFailure ==
    /\ result # None
    /\ LastCall.again /\ LastCall.write = "written"
    /\ positions # <<>>
    /\ IsSnapshotOf(snapshot_summary, positions)
    /\ DOMAIN historical_summary = DOMAIN snapshot_summary

\* the fields of a summary the snapshot builder makes (lines 139-147)
SummaryKeys ==
    {"SIZE_SUM", "POSITION_COUNT", "AVG_PRICE", "CURRENT_PRICE", "UNREALIZED_PROFIT",
     "LAST_POSITION_TIME", "LAST_POSITION_TIME_RAW"}

\* C18: the LONG / SHORT / NET summaries get_total_positions builds from the
\* cached positions are those of the raw list alone: the count and size of
\* every side are the count and volume of its group, and a call that follows
\* another on the same positions returns the same summaries in every field of
\* the snapshot builder, whatever the earlier merge stored in the record or
\* added to the dictionaries it returned.
C18_SnapshotRepeatable ==
    [][(result' # None /\ positions' = positions /\ positions # <<>>) =>
          /\ DOMAIN snapshot_summary' = {positions[i].symbol : i \in 1..Len(positions)}
          /\ \A symbol \in DOMAIN snapshot_summary' : \A side \in {"LONG", "SHORT"} :
                /\ snapshot_summary'[symbol][side].POSITION_COUNT
                      = Cardinality(GroupOf(symbol, side))
                /\ snapshot_summary'[symbol][side].SIZE_SUM
                      = SumOver(GroupOf(symbol, side),
                                [i \in GroupOf(symbol, side) |-> positions[i].volume])
          /\ result # None =>
                /\ DOMAIN snapshot_summary' = DOMAIN snapshot_summary
                /\ \A symbol \in DOMAIN snapshot_summary' : \A side \in SideNames :
                      \A key \in SummaryKeys :
                          snapshot_summary'[symbol][side][key]
                              = snapshot_summary[symbol][side][key]]_vars

\* C18 witness: a hedged symbol summarised again after an earlier call stored
\* its snapshot in the record: the summaries returned carry the builder's
\* fields only, the record the fields the merges added
C18_BuiltAfterMerge ==
    /\ result # None
    /\ Len(positions) = 2
    /\ \E symbol \in DOMAIN snapshot_summary :
          /\ symbol \in DOMAIN historical_summary
          /\ DOMAIN snapshot_summary[symbol].NET = SummaryKeys
          /\ "PROFIT_GOAL" \in DOMAIN historical_summary[symbol].NET
          /\ snapshot_summary[symbol].LONG.POSITION_COUNT = 1
          /\ snapshot_summary[symbol].SHORT.POSITION_COUNT = 1

\* C19: after a get_total_positions call, every symbol of the record that has
\* no position in the cached raw list is persisted flat: its LONG, SHORT and
\* NET records have SIZE_SUM 0, extreme tracks and goals 0 and all flags
\* False.
C19_ClosedSymbolFlat ==
    result # None =>
        \A symbol \in DOMAIN historical_summary :
            (\A i \in 1..Len(positions) : positions[i].symbol # symbol) =>
                \A side \in PersistedSides(symbol) :
                    LET record == historical_summary[symbol][side]
                    IN  /\ record.SIZE_SUM = 0
                        /\ RecordIsReset(record)
                        /\ Get(record, "PROFIT_GOAL", 0) = 0
                        /\ Get(record, "TRAILING_PROFIT", 0) = 0

\* the price the call looks at and the two levels it combines
CallPriceNow == IF call.pos.type = "BUY" THEN call.tick.bid ELSE call.tick.ask

CallTrailLevel ==
    LET distance == (call.atr * call.config.atr_multiplier.num)
                        \div call.config.atr_multiplier.den
    IN  IF call.pos.type = "BUY" THEN CallPriceNow - distance ELSE CallPriceNow + distance

CallBreakEvenLevel ==
    LET offset == (call.atr * call.config.break_even_offset.num)
                      \div call.config.break_even_offset.den
    IN  IF call.pos.type = "BUY" THEN call.pos.price_open + offset
        ELSE call.pos.price_open - offset

CallCombinedLevel ==
    IF call.pos.type = "BUY" THEN Max2(CallTrailLevel, CallBreakEvenLevel)
    ELSE Min2(CallTrailLevel, CallBreakEvenLevel)

\* C20: simple_manage_sl recommends, for a BUY, max(bid - multiplier * ATR,
\* open_price + ATR * break_even_offset) when bid >= open_price + ATR and the
\* pure trailing level bid - multiplier * ATR otherwise; for a SELL the same
\* with ask, min and open_price - ATR.
C20_BreakEvenElseTrail ==
    result # None =>
        TheValue(result) =
            IF call.pos.type = "BUY"
              THEN IF CallPriceNow >= call.pos.price_open + call.atr
                     THEN Some(CallCombinedLevel) ELSE Some(CallTrailLevel)
              ELSE IF CallPriceNow <= call.pos.price_open - call.atr
                     THEN Some(CallCombinedLevel) ELSE Some(CallTrailLevel)

\* C20 as the code has it: the combined level is recommended only when the
\* price is strictly beyond open_price +/- ATR and the level improves on the
\* position's stop-loss (or the position has none); in every other case
\* nothing is recommended.
C20_BreakEvenThenTrail ==
    result # None =>
        LET beyond == IF call.pos.type = "BUY"
                        THEN CallPriceNow > call.pos.price_open + call.atr
                        ELSE CallPriceNow < call.pos.price_open - call.atr
            improves == \/ call.pos.sl = 0
                        \/ IF call.pos.type = "BUY" THEN CallCombinedLevel > call.pos.sl
                           ELSE CallCombinedLevel < call.pos.sl
        IN  TheValue(result) = IF beyond /\ improves THEN Some(CallCombinedLevel) ELSE None

\* C20 witness: a BUY with a stop-loss, just past the trigger, is given the
\* break-even level, which is above the trailing level
C20_BreakEvenFloor ==
    /\ result # None
    /\ call.pos.type = "BUY" /\ call.pos.sl # 0
    /\ CallPriceNow > call.pos.price_open + call.atr
    /\ CallTrailLevel < CallBreakEvenLevel
    /\ TheValue(result) = Some(CallBreakEvenLevel)

\* the call's store cannot be read or holds nothing
CallStoreUnreadable == call.store = None \/ DOMAIN TheValue(call.store) = {}

\* the call's store has an entry for the call's symbol
CallHasOwnEntry == ~CallStoreUnreadable /\ call.symbol \in DOMAIN TheValue(call.store)

\* C16: trailing_staircase returns (None, False) whenever the risk-profile
\* store is unreadable, has no entry for the symbol, or the entry lacks one of
\* the timeframes 1m, 5m, 15m, 1h, 1d; no other profile stands in for a
\* missing one.
C16_NoProfileNoAction ==
    result # None =>
        ((\/ CallStoreUnreadable
          \/ ~CallHasOwnEntry
          \/ \E tf \in Timeframes : tf \notin DOMAIN TheValue(call.store)[call.symbol])
            => TheValue(result) = LadderResult(None, FALSE))

\* the entry of the call's store the ladder is built from: the symbol's own
\* entry unless it is missing or empty, else the 'defaults' entry
CallProfileUsed ==
    LET store == TheValue(call.store)
    IN  IF CallHasOwnEntry /\ DOMAIN store[call.symbol] # {} THEN Some(store[call.symbol])
        ELSE IF "defaults" \in DOMAIN store THEN Some(store["defaults"])
        ELSE None

\* C16 as the code has it: (None, False) is returned when the store is
\* unreadable or empty, when it has neither a non-empty entry for the symbol
\* nor a 'defaults' entry, and when the entry used lacks a timeframe; a symbol
\* without an entry of its own is managed with the 'defaults' entry, exactly
\* as a symbol whose own entry is that profile.
C16_DefaultsStandIn ==
    result # None =>
        IF CallStoreUnreadable \/ CallProfileUsed = None
          THEN TheValue(result) = LadderResult(None, FALSE)
        ELSE IF \E tf \in Timeframes : tf \notin DOMAIN TheValue(CallProfileUsed)
          THEN TheValue(result) = LadderResult(None, FALSE)
        ELSE TheValue(result) = trailing_staircase(CallProfileUsed, call.pos, call.tick)

\* C16 witness: the store has a 'defaults' entry and none for the symbol, and
\* the ladder built from the defaults moves the stop-loss
C16_ManagedByDefaults ==
    /\ result # None
    /\ ~CallStoreUnreadable /\ ~CallHasOwnEntry
    /\ "defaults" \in DOMAIN TheValue(call.store)
    /\ TheValue(result).recommended_sl # None

\* C12: a write of the positions file holds only tickets the broker reports
\* as open at that moment: a ticket the broker has closed is in no later
\* write, and the save at the end of manage_trade writes back no ticket that
\* is only in the cached positions it loaded.
C12_ClosedTicketNotRewritten ==
    [][positions' # positions => TicketsOf(positions') \subseteq TicketsOf(broker')]_vars

\* C14: a manage_trade call whose ATR is missing or 0 evaluates no position
\* and sends no stop-loss modification.
C14_NoAtrNoEvaluation ==
    (result # None /\ LastCall.atr \in {None, Some(0)}) =>
        /\ LastCall.evaluated = 0
        /\ sl_requests = {}

\* C15: no manage_trade call ends by raising; a call that got as far as its
\* positions has evaluated every position whose price_open is usable, and the
\* positions file holds every open ticket afterwards.
C15_FailureContained ==
    (result # None /\ LastCall.atr # None) =>
        /\ LastCall.outcome # "raised"
        /\ LastCall.evaluated >= Cardinality({i \in 1..Len(broker) : broker[i].price_open # 0})
        /\ TicketsOf(broker) \subseteq TicketsOf(positions)

\* the signed price move of the evaluated call, in price units
CallMove ==
    IF call.pos.type = "BUY" THEN call.tick.bid - call.pos.price_open
    ELSE call.pos.price_open - call.tick.ask

\* pct_profit < -ATR * initial_sl_buffer_atr / open_price, both sides
\* multiplied by open_price
CallBelowBuffer ==
    LET buffer == StaircaseConfig(call.settings, call.symbol).initial_sl_buffer_atr
    IN  CallMove * buffer.den < 0 - call.atr * buffer.num

\* pct_profit > trailing_profit_threshold_decimal
CallAboveTrailingThreshold ==
    LET threshold ==
            StaircaseConfig(call.settings, call.symbol).trailing_profit_threshold_decimal
    IN  CallMove * threshold.den > threshold.num * call.pos.price_open

\* C21: once elapsed_ticks >= min_ticks_to_hold and the hard stop has not
\* fired, sl_trailing_staircase returns (None, close=True) if and only if
\* pct_profit < -ATR * initial_sl_buffer_atr / open_price, also when pct_profit
\* is above the trailing threshold: the buffer stop is decided first.
C21_BufferStopBeforeTrailing ==
    (result # None /\ CallElapsedTicks >= CallMinTicksToHold /\ ~CallBelowMaxLoss)
        => (result = Some(Decision(None, TRUE)) <=> CallBelowBuffer)

\* a position 0.4 % down with ATR 20 (cutoff -0.3 %), past the waiting period,
\* whose trailing threshold of -2 % is exceeded as well
C21_BufferStopOverTrailing ==
    /\ result = Some(Decision(None, TRUE))
    /\ CallElapsedTicks >= CallMinTicksToHold
    /\ ~CallBelowMaxLoss
    /\ CallBelowBuffer
    /\ CallAboveTrailingThreshold
    /\ call.atr = 20

\* the TRAILING-ACTIVE case of the evaluated call: the waiting period is over,
\* neither stop fired and pct_profit is above the trailing threshold
CallTrailingActive ==
    /\ CallElapsedTicks >= CallMinTicksToHold
    /\ ~CallBelowMaxLoss
    /\ ~CallBelowBuffer
    /\ CallAboveTrailingThreshold

\* C22: sl_trailing_staircase returns a stop-loss recommendation only in the
\* TRAILING-ACTIVE case and then with close=False; every other call that does
\* not close returns (None, False); a recommendation never comes with
\* close=True.
C22_RecommendationOnlyWhenTrailing ==
    result # None =>
        LET decision == TheValue(result)
        IN  /\ decision.recommended_sl # None
                => (CallTrailingActive /\ decision.close_signal = FALSE)
            /\ (~CallTrailingActive /\ ~decision.close_signal)
                => decision = Decision(None, FALSE)
            /\ ~(decision.recommended_sl # None /\ decision.close_signal)

\* a BUY 1 % in profit past the waiting period gets a stop-loss two ATRs below
\* the bid and no close
C22_TrailRecommended ==
    /\ result = Some(Decision(Some(10060), FALSE))
    /\ CallTrailingActive
    /\ call.pos.type = "BUY"
    /\ call.tick.bid = 10100
    /\ call.atr = 20

\* the persisted side is absent or flat / holds an open size
SideFlatIn(summary, symbol, side) ==
    \/ symbol \notin DOMAIN summary
    \/ side \notin DOMAIN summary[symbol]
    \/ summary[symbol][side].SIZE_SUM = 0

SideOpenIn(summary, symbol, side) == ~SideFlatIn(summary, symbol, side)

\* C23: for a side with non-zero SIZE_SUM the persisted PROFIT_RECORD_TRACK is
\* the maximum and LOSS_RECORD_TRACK the minimum of the UNREALIZED_PROFIT
\* values observed since the side was first seen or last became non-flat, and
\* neither is a value that was never observed.  At the merge in which the side
\* becomes non-flat one value has been observed, so both extremes equal the
\* UNREALIZED_PROFIT of that merge; at every later merge the extremes are those
\* of the previous merge extended by the new value.
C23_ExtremesObserved ==
    [][\A symbol \in DOMAIN historical_summary', side \in SideNames :
          SideOpenIn(historical_summary', symbol, side) =>
              LET new == historical_summary'[symbol][side]
              IN  IF SideFlatIn(historical_summary, symbol, side)
                    THEN /\ new.PROFIT_RECORD_TRACK = new.UNREALIZED_PROFIT
                         /\ new.LOSS_RECORD_TRACK = new.UNREALIZED_PROFIT
                    ELSE LET old == historical_summary[symbol][side]
                         IN  /\ new.PROFIT_RECORD_TRACK =
                                    Max2(old.PROFIT_RECORD_TRACK, new.UNREALIZED_PROFIT)
                             /\ new.LOSS_RECORD_TRACK =
                                    Min2(old.LOSS_RECORD_TRACK, new.UNREALIZED_PROFIT)]_vars

\* C24: every persisted symbol x side record with non-zero SIZE_SUM has
\* PROFIT_GOAL = SIZE_SUM * AVG_PRICE * close_profit_threshold,
\* TRAILING_PROFIT = SIZE_SUM * AVG_PRICE * trailing_profit_threshold,
\* GOAL_MET = (UNREALIZED_PROFIT >= PROFIT_GOAL) and
\* TRAILING_CROSSED = (UNREALIZED_PROFIT >= TRAILING_PROFIT), all of them from
\* the values of the same record.
C24_GoalsFromSnapshot ==
    \A symbol \in DOMAIN historical_summary :
        \A side \in PersistedSides(symbol) :
            LET record == historical_summary[symbol][side]
                profit_goal == TargetProfit(record.SIZE_SUM, record.AVG_PRICE,
                                            CLOSE_PROFIT_THRESHOLD)
                trailing_profit == TargetProfit(record.SIZE_SUM, record.AVG_PRICE,
                                                TRAILING_PROFIT_THRESHHOLD)
            IN  record.SIZE_SUM # 0 =>
                    /\ {"PROFIT_GOAL", "TRAILING_PROFIT"} \subseteq DOMAIN record
                    /\ record.PROFIT_GOAL = profit_goal
                    /\ record.TRAILING_PROFIT = trailing_profit
                    /\ record.GOAL_MET = (record.UNREALIZED_PROFIT >= profit_goal)
                    /\ record.TRAILING_CROSSED = (record.UNREALIZED_PROFIT >= trailing_profit)

\* the last lookback entries of the chain exist and each is lower than the one
\* before it
LastEntriesFalling(chain, lookback) ==
    /\ Len(chain) >= lookback
    /\ \A i \in (Len(chain) - lookback + 1)..(Len(chain) - 1) : chain[i] > chain[i + 1]

\* the failed bounce and the trailing retrace of a position, from its fields
FailedBounceOf(p, lookback) ==
    /\ "peak_profit" \in DOMAIN p /\ p.peak_profit < 0
    /\ "profit_chain" \in DOMAIN p /\ LastEntriesFalling(p.profit_chain, lookback)

TrailingRetraceOf(p) ==
    /\ p.peak_profit > 0
    /\ (p.peak_profit - CurrentProfitPercent(p)) * 1000 >= 382 * p.peak_profit

\* C25: check_failed_bounce(position, lookback) is True exactly when
\* peak_profit < 0 and the last lookback entries of profit_chain are strictly
\* decreasing; process_position_state sets CLOSE_SIGNAL to (trailing retrace
\* detected OR failed bounce detected) on the updated position, whatever the
\* flag was before.
C25_FailedBounceAndCloseSignal ==
    result # None =>
        LET returned == TheValue(result).returned
        IN  IF TheValue(result).function = "check_failed_bounce"
              THEN returned = FailedBounceOf(call.position, call.lookback)
              ELSE returned.CLOSE_SIGNAL =
                       (TrailingRetraceOf(returned) \/ FailedBounceOf(returned, 3))

\* a position not flagged by the previous poll, never in profit, now at its
\* third lower low: the flag is set, by the failed bounce alone
C25_ThirdLowerLow ==
    /\ result # None
    /\ TheValue(result).function = "process_position_state"
    /\ TheValue(result).returned.CLOSE_SIGNAL = TRUE
    /\ TheValue(result).returned.profit_chain = <<0 - 1000, 0 - 2000, 0 - 3000>>
    /\ TheValue(result).returned.peak_profit = 0 - 1000
    /\ "CLOSE_SIGNAL" \in DOMAIN call.position
    /\ call.position.CLOSE_SIGNAL = FALSE
    /\ ~TrailingRetraceOf(TheValue(result).returned)

\* C26: load_cached_positions always ends by returning a position list
\* (possibly empty), after at most `retries` read attempts and a bounded number
\* of refreshes, whatever becomes of the file and of the writes of
\* get_positions; it does not recurse until the interpreter stops it.
C26_LoadReturnsList ==
    result # None =>
        /\ TheValue(result).outcome \in {"positions", "empty"}
        /\ TheValue(result).reads <= Retries

\* the symbols of the list, in order, that satisfy a condition of the frame
RECURSIVE SymbolsFrom(_, _)
SymbolsFrom(i, wanted) ==
    IF i > Len(ListenSymbols) THEN <<>>
    ELSE (IF ListenSymbols[i] \in wanted THEN <<ListenSymbols[i]>> ELSE <<>>)
             \o SymbolsFrom(i + 1, wanted)

\* the symbols whose tick of this iteration differs from the (bid, ask)
\* recorded when the iteration began
ChangedSymbols ==
    {symbol \in DOMAIN call.seen :
        /\ call.seen[symbol] # None
        /\ \/ symbol \notin DOMAIN call.before
           \/ call.before[symbol] # <<TheValue(call.seen[symbol]).bid,
                                       TheValue(call.seen[symbol]).ask>>}

\* C27: an iteration of listen_to_ticks hands on_tick exactly the symbols whose
\* (bid, ask) differs from the value recorded last, has recorded the new value
\* when it delivers, calls on_tick at most once, and polls again only after
\* on_tick has ended: two on_tick cycles never overlap.
C27_OneCyclePerPoll ==
    /\ call.pc = "on_tick" =>
          /\ [i \in 1..Len(call.tick_data) |-> call.tick_data[i].symbol]
                 = SymbolsFrom(1, ChangedSymbols)
          /\ \A i \in 1..Len(call.tick_data) :
                LET tick == call.tick_data[i]
                IN  /\ call.seen[tick.symbol] = Some([bid |-> tick.bid, ask |-> tick.ask])
                    /\ last_ticks[tick.symbol] = <<tick.bid, tick.ask>>
    /\ call.invoked <= 1
    /\ call.running <= 1
    /\ call.pc \in {"poll", "sleep"} => call.running = 0
    /\ call.pc = "on_tick" => call.running = 1

\* both symbols were recorded, the ask of BTCUSD alone has moved, and on_tick
\* runs with that one symbol
C27_OnlyTheMovedSymbol ==
    /\ call.pc = "on_tick"
    /\ DOMAIN call.before = {"EURUSD", "BTCUSD"}
    /\ call.seen["EURUSD"] # None
    /\ Len(call.tick_data) = 1
    /\ call.tick_data[1].symbol = "BTCUSD"
    /\ call.before["BTCUSD"][1] = call.tick_data[1].bid

(***************************************************************************)
(* Claims about the liquidation cycle.                                     *)
(***************************************************************************)
OpenTradeEnded == result # None /\ "function" \in DOMAIN TheValue(result)
                      /\ TheValue(result).function = "open_trade"

\* C28: when a symbol has gone from open positions to flat, a liquidation
\* cycle is registered for it before a further open_trade for the symbol
\* passes check_cycle_clearance: an open_trade that passes for a symbol that
\* went flat finds a LAST_CYCLE_TIME not earlier than the moment it went flat.
C28_CycleRegisteredBeforeClearance ==
    (OpenTradeEnded /\ TheValue(result).cleared /\ TheValue(result).flat_since # None)
        => /\ TheValue(result).last_cycle_time # 0
           /\ TheValue(result).last_cycle_time >= TheValue(TheValue(result).flat_since)

\* the cooldown in force, read from the settings the flow was started with
CooldownInForce ==
    IF autotrade_config = EmptyDict THEN DefaultCooldown
    ELSE autotrade_config.defaults.liquidation_cycle_seconds

KeyOfField(field) ==
    IF field = "break_even_offset" THEN "break_even_offset_decimal" ELSE field

\* the numbers a threshold can take: the hardcoded default, or a number the
\* file gives it in its defaults or in the overrides of a symbol
ThresholdValues(key) ==
    {StaircaseDefaults[key]}
        \cup {Get(d, "defaults", EmptyDict)[key] :
                 d \in {x \in ConfigObjects : key \in DOMAIN Get(x, "defaults", EmptyDict)}}
        \cup UNION {{Get(d, "symbol_overrides", EmptyDict)[s][key] :
                        d \in {x \in ConfigObjects :
                                  /\ s \in DOMAIN Get(x, "symbol_overrides", EmptyDict)
                                  /\ key \in DOMAIN Get(x, "symbol_overrides",
                                                        EmptyDict)[s]}} :
                    s \in ConfigSymbols}

\* the load of the call failed: no file, or a changed file that cannot be
\* read or parsed
ConfigLoadFailed ==
    \/ call.file.state = "missing"
    \/ /\ call.file.state = "unreadable" \/ ~call.file.parses
       /\ call.file.mtime # call.last_mtime

\* C30: get_autotrade_param returns the override of the symbol when the
\* settings hold one, else the value of the defaults section, else the default
\* of the caller; so every threshold of the staircase's config is a number,
\* the hardcoded default when the settings file is missing, empty or
\* unreadable.
C30_FallbackAlwaysDefined ==
    (result # None /\ "function" \in DOMAIN TheValue(result)) =>
        LET r == TheValue(result)
            overrides == Get(Get(autotrade_config, "symbol_overrides", EmptyDict),
                             r.symbol, EmptyDict)
            defaults == Get(autotrade_config, "defaults", EmptyDict)
        IN  /\ r.function = "get_autotrade_param" =>
                 /\ r.key \in DOMAIN overrides => r.returned = overrides[r.key]
                 /\ (r.key \notin DOMAIN overrides /\ r.key \in DOMAIN defaults)
                        => r.returned = defaults[r.key]
                 /\ (r.key \notin DOMAIN overrides /\ r.key \notin DOMAIN defaults)
                        => r.returned = r.default
                 /\ r.returned \in ThresholdValues(r.key)
                 /\ ConfigLoadFailed
                        => r.returned = r.default
            /\ r.function = "sl_trailing_staircase" =>
                 /\ DOMAIN r.config = {"max_loss_decimal", "initial_sl_buffer_atr",
                                       "min_ticks_to_hold",
                                       "trailing_profit_threshold_decimal",
                                       "atr_multiplier", "break_even_offset"}
                 /\ \A field \in DOMAIN r.config :
                       /\ r.config[field] \in ThresholdValues(KeyOfField(field))
                       /\ ConfigLoadFailed
                             => r.config[field] = StaircaseDefaults[KeyOfField(field)]

\* the staircase builds its config for EURUSD while the file, which overrides
\* min_ticks_to_hold for EURUSD, cannot be read: every field is its default
C30_UnreadableFileGivesDefaults ==
    /\ result # None /\ "function" \in DOMAIN TheValue(result)
    /\ TheValue(result).function = "sl_trailing_staircase"
    /\ TheValue(result).symbol = "EURUSD"
    /\ call.file.state = "unreadable" /\ call.file.parses
    /\ call.file.mtime # call.last_mtime
    /\ "symbol_overrides" \in DOMAIN call.file.data
    /\ TheValue(result).config.min_ticks_to_hold = StaircaseDefaults.min_ticks_to_hold

(***************************************************************************)
(* Claims about the candle aggregator.                                     *)
(***************************************************************************)
\* C31: in tick mode with interval N every candle on_new_tick returns has
\* tick_count N and low <= open, close <= high, every tick of the stream is
\* part of at most one finished candle (and of exactly one once a later candle
\* has been finished), and a tick that completes no candle returns None.
C31_CandlesPartitionTheStream ==
    (result # None /\ "function" \in DOMAIN TheValue(result)
        /\ TheValue(result).function = "on_new_tick") =>
        LET r == TheValue(result)
            N == call.aggregator.interval
        IN  /\ r.returned # None =>
                 LET candle == TheValue(r.returned)
                 IN  /\ candle.tick_count = N
                     /\ candle.low <= candle.open /\ candle.open <= candle.high
                     /\ candle.low <= candle.close /\ candle.close <= candle.high
            /\ \A i \in DOMAIN call.in_candles : call.in_candles[i] <= 1
            /\ r.returned # None =>
                 \A i \in DOMAIN call.in_candles : call.in_candles[i] = 1
            /\ r.returned = None => call.aggregator.tick_count < N \/ Len(call.ticks) = 1

(***************************************************************************)
(* Claims about the waiting period.                                        *)
(***************************************************************************)
\* C32: for every setting of min_ticks_to_hold the cap of profit_chain is at
\* least the waiting period of the staircase, so a chain that has reached its
\* cap is out of WARMUP; and the chain of an open position never gets shorter.
C32_CapCoversWaitingPeriod ==
    (result # None /\ "function" \in DOMAIN TheValue(result)
        /\ TheValue(result).function = "sl_trailing_staircase"
        /\ "max_chain_length" \in DOMAIN TheValue(result)) =>
        LET r == TheValue(result)
        IN  /\ r.max_chain_length >= r.min_ticks_to_hold
            /\ r.elapsed_ticks = r.max_chain_length => ~r.warmup
            /\ r.elapsed_ticks >= r.elapsed_before

(***************************************************************************)
(* Claims about what manage_trade does with the staircase's answer.        *)
(***************************************************************************)
ManageEnded == result # None /\ "function" \in DOMAIN TheValue(result)
                   /\ TheValue(result).function = "manage_trade"

\* C33: manage_trade sends a stop-loss modification exactly when the staircase
\* recommends a stop-loss and the position either has no stop-loss (sl 0) or
\* the recommendation is strictly better than its stop-loss.
C33_RequestIffUnsetOrBetter ==
    ManageEnded =>
        LET r == TheValue(result)
            recommended_sl == r.decision.recommended_sl
            current_sl == Get(call.pos, "sl", 0)
        IN  (r.request # None)
               <=> /\ recommended_sl # None
                   /\ \/ current_sl = 0
                      \/ /\ call.pos.type = "BUY" => TheValue(recommended_sl) > current_sl
                         /\ call.pos.type = "SELL" => TheValue(recommended_sl) < current_sl

\* C34: when the staircase answers close = True, manage_trade issues a close
\* for the ticket in the same pass.
C34_CloseSignalActedOn ==
    ManageEnded =>
        (TheValue(result).decision.close_signal
            => call.pos.ticket \in TheValue(result).closes)

(***************************************************************************)
(* Claims about the clearances of open_trade.                              *)
(***************************************************************************)
GatedEnded == result # None /\ "function" \in DOMAIN TheValue(result)
                  /\ TheValue(result).function = "open_trade"
                  /\ "order_side" \in DOMAIN TheValue(result)

\* volume and latest opening time of the positions of a type
SizeOf(ps, symbol, type) ==
    Cardinality({i \in 1..Len(ps) : ps[i].symbol = symbol /\ ps[i].type = type})

LastOpened(ps, symbol, type) ==
    LET times == {ps[i].time_raw : i \in {j \in 1..Len(ps) :
                                            ps[j].symbol = symbol /\ ps[j].type = type}}
    IN  IF times = {} THEN 0 ELSE CHOOSE t \in times : \A u \in times : u <= t

\* the limits of the symbol of a call: its own entry, else the DEFAULT entry
LimitsInForce(r) ==
    IF r.symbol \in DOMAIN r.limits THEN r.limits[r.symbol]
    ELSE IF "DEFAULT" \in DOMAIN r.limits THEN r.limits.DEFAULT
    ELSE EmptyDict

\* the side is within its limit on the list get_limit_clearance read and past
\* the cooldown on the list get_cooldown_clearance read
SideAllowed(r, type, max_key) ==
    /\ LimitsInForce(r) # EmptyDict
    /\ max_key \in DOMAIN LimitsInForce(r)
    /\ SizeOf(r.limit_seen, r.symbol, type) < LimitsInForce(r)[max_key]
    /\ r.tick_time - LastOpened(r.cooldown_seen, r.symbol, type) > DefaultCooldownSeconds

BiasOf == IF autotrade_config = EmptyDict THEN "none" ELSE autotrade_config.defaults.bias

\* the order of a call is covered by the signal, the clearances and the bias
OrderJustified(r) ==
    /\ r.order_side = Some("BUY") =>
          /\ r.consensus_signal = "BUY"
          /\ SideAllowed(r, "BUY", "MAX_LONG_SIZE")
          /\ BiasOf # "short"
    /\ r.order_side = Some("SELL") =>
          /\ r.consensus_signal = "SELL"
          /\ SideAllowed(r, "SELL", "MAX_SHORT_SIZE")
          /\ BiasOf # "long"
    /\ LimitsInForce(r) = EmptyDict => r.order_side = None
    /\ r.filled => r.order_side # None

\* C35: open_trade sends a BUY order only when the consensus signal (the one
\* open_trade holds after maybe_invert_signal) is BUY and both the size limit
\* (LONG size below MAX_LONG_SIZE) and the cooldown allow BUY, and likewise for
\* SELL; with no limits for the symbol, or a bias that excludes the side, no
\* order is sent.  Stated of the step in which the broker opens a position
\* and of the step in which the call ends.
C35_OrderOnlyWithClearance ==
    [][ /\ Len(broker') > Len(broker) =>
              /\ call'.order_side # None /\ call'.filled
              /\ broker'[Len(broker')].symbol = call'.symbol
              /\ broker'[Len(broker')].type = TheValue(call'.order_side)
              /\ OrderJustified(call')
        /\ (result' # None /\ TheValue(result').function = "open_trade")
              => OrderJustified(TheValue(result'))
      ]_vars

\* a BUY is sent and filled next to an open BUY opened 121 s before, under a
\* limit of 2
C35_SecondBuyWithinLimit ==
    /\ GatedEnded
    /\ TheValue(result).order_side = Some("BUY") /\ TheValue(result).filled
    /\ SizeOf(TheValue(result).limit_seen, TheValue(result).symbol, "BUY") = 1
    /\ TheValue(result).tick_time
          - LastOpened(TheValue(result).cooldown_seen, TheValue(result).symbol, "BUY") = 121
    /\ Len(broker) = 2

\* the parts of a symbol's record in total_positions.json
SideRecords(file, symbol) ==
    LET symbol_data == Get(file, symbol, EmptyDict)
    IN  [side \in {"LONG", "SHORT", "NET"} |->
            IF side \in DOMAIN symbol_data THEN Some(symbol_data[side]) ELSE None]

CycleEntry(file, symbol) ==
    LET symbol_data == Get(file, symbol, EmptyDict)
    IN  IF "CYCLE" \in DOMAIN symbol_data THEN Some(symbol_data.CYCLE) ELSE None

SymbolRecord(file, symbol) ==
    IF symbol \in DOMAIN file THEN Some(file[symbol]) ELSE None

\* a step that runs the merge of get_total_positions(save=True)
MergeStep ==
    WriterMerge \/ OpenTradeLimitClearance \/ OpenTradeCooldownClearance
        \/ OpenTradeRefreshes

\* C36: the historical merge changes only the LONG/SHORT/NET records of the
\* symbols of the current snapshot: the records of all other symbols and every
\* symbol's CYCLE entry are left as they were by get_total_positions, and
\* register_cycle changes nothing but the CYCLE entry of its symbol, in every
\* order in which the two writers run.
C36_WritersKeepTheirFrames ==
    [][ /\ MergeStep =>
              \A s \in WriterSymbols :
                  /\ CycleEntry(historical_summary', s) = CycleEntry(historical_summary, s)
                  /\ ~HasPositions(positions, s)
                        => SymbolRecord(historical_summary', s)
                              = SymbolRecord(historical_summary, s)
        /\ WriterRegisterCycle =>
              \A s \in WriterSymbols :
                  /\ SideRecords(historical_summary', s) = SideRecords(historical_summary, s)
                  /\ s # TheValue(result').symbol
                        => SymbolRecord(historical_summary', s)
                              = SymbolRecord(historical_summary, s)
      ]_vars

WatcherEnded == result # None /\ "function" \in DOMAIN TheValue(result)
                    /\ TheValue(result).function = "load_if_changed"

\* C37: under any sequence of changes of the config file (rewrite, delete,
\* restore, corrupt) and calls of load_if_changed, after a call made while the
\* file is present and valid the watcher's config is the content of the file,
\* so a later call with a valid file always recovers the content, and after a
\* call made while the file is missing or invalid the config is empty.
C37_ConfigFollowsFile ==
    WatcherEnded =>
        /\ TheValue(result).valid => autotrade_config = TheValue(result).content
        /\ ~TheValue(result).valid => autotrade_config = EmptyDict

====
